---- MODULE Spec2Model ----
(***************************************************************************)
(* Model of the aether CLI deployment pipeline: the `deploy` command of    *)
(* commands.rs, the project builder of builder.rs and the dashboard's      *)
(* built-in `aether deploy` of terminal_dashboard.rs, running against a    *)
(* control plane, an object store, a temp directory and a project          *)
(* directory.                                                              *)
(***************************************************************************)
EXTENDS Integers, Sequences, FiniteSets, TLC

\* ------------------------------------------------------------------ bounds
\* number of deploy runs executed one after another
MaxRuns == 2
\* the clock (unix seconds) advances at most this far
MaxClock == 1

\* --------------------------------------------------------------- constants
\* utils.rs: `name.len() > 63`
MaxNameLen == 63
\* main.rs: std::process::exit(1)
ExitFailure == 1

\* Option<T>: None is the empty sequence, Some(x) the one-element sequence
None == <<>>
Some(x) == <<x>>
is_some(o) == Len(o) > 0
unwrap(o) == o[1]

\* ------------------------------------------------------------------- names
\* names are sequences of one-character strings
LowerChars ==
    {"a","b","c","d","e","f","g","h","i","j","k","l","m",
     "n","o","p","q","r","s","t","u","v","w","x","y","z"}
DigitChars == {"0","1","2","3","4","5","6","7","8","9"}

is_ascii_lowercase(c) == c \in LowerChars
is_ascii_digit(c) == c \in DigitChars

DemoApp == <<"d","e","m","o","-","a","p","p">>
WebApp == <<"w","e","b","1">>
BadName == <<"-","b","a","d","-">>
UpperName == <<"M","y","-","A","p","p">>

\* validate_app_name without the check of the first and last character
validate_app_name_inner_only(name) ==
    IF Len(name) = 0 THEN "App name cannot be empty"
    ELSE IF Len(name) > MaxNameLen THEN "App name too long (max 63 characters)"
    ELSE IF ~(\A i \in 1..Len(name) :
                 is_ascii_lowercase(name[i]) \/ is_ascii_digit(name[i]) \/ name[i] = "-")
         THEN "App name must contain only lowercase letters, numbers, and hyphens"
    ELSE "Ok"

\* utils::validate_app_name: "Ok" or the error it returns
validate_app_name(name) ==
    IF Len(name) = 0 THEN "App name cannot be empty"
    ELSE IF Len(name) > MaxNameLen THEN "App name too long (max 63 characters)"
    ELSE IF ~(\A i \in 1..Len(name) :
                 is_ascii_lowercase(name[i]) \/ is_ascii_digit(name[i]) \/ name[i] = "-")
         THEN "App name must contain only lowercase letters, numbers, and hyphens"
    ELSE IF name[1] = "-" \/ name[Len(name)] = "-"
         THEN "App name cannot start or end with a hyphen"
    ELSE "Ok"

\* ------------------------------------------------------------------- state
VARIABLES
    auth_token,      \* Config.auth_token: None or a token
    package_json,    \* the project's manifest file: "missing", "malformed" or its parsed content
    node_modules,    \* the project's node_modules directory: "absent", "empty", "populated"
    applications,    \* control plane: the account's applications, in list order
    deployments,     \* control plane: the deployment records, in creation order
    uploaded,        \* object store: the storage locators whose put succeeded
    tmp_files,       \* temp directory: manifest names N whose N.tar.gz exists
    now,             \* unix time in seconds
    runs,            \* number of deploy runs started so far
    run,             \* the deploy run in progress (or the last one)
    remote_log,      \* control plane: the application's log, one element per line
    follow,          \* the `aether logs --follow` session of the CLI
    dash,            \* the dashboard's TerminalApp
    conc,            \* deploy runs executing at the same time
    s3,              \* the calls of S3Uploader::upload_artifact
    call,            \* the last call of a pure function: its input and result
    shell,           \* the CLI commands run one after another and the config file
    tui              \* the TerminalApp of run_app: its main loop and key handling

\* the state outside the sequential deploy pipeline
aux == <<remote_log, follow, dash, conc, s3, call, shell, tui>>

vars == <<aux, auth_token, package_json, node_modules, applications, deployments,
          uploaded, tmp_files, now, runs, run>>

env == <<aux, auth_token, package_json, node_modules, applications, deployments,
         uploaded, tmp_files, now, runs>>

ManifestNames == {DemoApp, BadName}
NameArgs == {None, Some(WebApp), Some(BadName), Some(UpperName)}
Versions == {None, Some("2.0.0")}
ScriptSets == {None, Some({"build"}), Some({"compile"})}

\* package.json on disk: absent, unparseable, or a PackageJson
Manifests ==
    [file : {"missing", "malformed"}, name : {<<>>}, version : {None}, scripts : {None}]
    \cup [file : {"ok"}, name : ManifestNames, version : Versions, scripts : ScriptSets]

IdleRun ==
    [entry |-> "none", pc |-> "idle", name |-> None, force |-> FALSE,
     authenticated_at_start |-> FALSE,
     app_name |-> None, existing |-> FALSE, answer |-> "none",
     app_id |-> 0, artifact_path |-> None, created |-> FALSE,
     artifact_url |-> None,
     result |-> "none", outcome |-> "none",
     trace |-> <<>>, spawned |-> 0, requests |-> 0,
     pre |-> [applications |-> <<>>, deployments |-> <<>>, uploaded |-> {},
              tmp_files |-> {}, node_modules |-> "absent"]]

\* no log session, no dashboard and no concurrent run
AuxIdle ==
    /\ remote_log = <<>>
    /\ follow = [pc |-> "idle"]
    /\ dash = [pc |-> "idle"]
    /\ conc = <<>>
    /\ s3 = <<>>
    /\ call = <<>>
    /\ shell = <<>>
    /\ tui = <<>>

Init ==
    /\ auth_token \in {None, Some("token")}
    /\ package_json \in Manifests
    /\ node_modules \in {"absent", "empty", "populated"}
    /\ applications = <<>>
    /\ deployments = <<>>
    /\ uploaded = {}
    /\ tmp_files = {}
    /\ now = 0
    /\ runs = 0
    /\ run = IdleRun
    /\ AuxIdle

\* ----------------------------------------------------------------- helpers
Ev(op, ev) == [op |-> op, ev |-> ev]

\* the run goes on to step `pc` having logged `op`/`ev`
Step(r, pc, op, ev) ==
    [r EXCEPT !.pc = pc, !.trace = Append(@, Ev(op, ev))]

\* `?` on an Err: the function returns the error at once
ReturnErr(r, op) ==
    [r EXCEPT !.pc = "returned", !.result = "Err", !.outcome = op,
              !.trace = Append(@, Ev(op, "err"))]

\* `return Ok(())`
ReturnOk(r, outcome) ==
    [r EXCEPT !.pc = "returned", !.result = "Ok", !.outcome = outcome]

Spawn(r) == [r EXCEPT !.spawned = @ + 1]
Request(r) == [r EXCEPT !.requests = @ + 1]

\* Config::is_authenticated
is_authenticated == is_some(auth_token)

\* ProjectBuilder::get_app_name
get_app_name == package_json.name

\* ProjectBuilder::get_version
get_version ==
    IF is_some(package_json.version) THEN unwrap(package_json.version) ELSE "1.0.0"

\* find_app_by_name that never finds the application
find_app_by_name_never(name) == 0

\* commands::find_app_by_name on a successful list: index of the first match, 0 if none
find_app_by_name(name) ==
    IF \E i \in 1..Len(applications) : applications[i].name = name
    THEN CHOOSE i \in 1..Len(applications) :
            /\ applications[i].name = name
            /\ \A j \in 1..(i-1) : applications[j].name # name
    ELSE 0

\* main: the process exit code for the result of execute_command
main(result) == IF result = "Err" THEN ExitFailure ELSE 0

\* the temp path of the archive: temp_dir()/<manifest name>.tar.gz
artifact_path_of == get_app_name

\* the storage locator of an upload: bucket/artifacts/<applicationId>/<version>/<timestamp>.tar.gz
storage_url(app_id, version) == [app_id |-> app_id, version |-> version, timestamp |-> now]

\* what a run finds when it starts
Snapshot ==
    [applications |-> applications, deployments |-> deployments,
     uploaded |-> uploaded, tmp_files |-> tmp_files, node_modules |-> node_modules]

\* ------------------------------------------------------- start of a run
\* `aether deploy [--name N] [--force]` from the shell
cli_deploy(name, force) ==
    /\ run.pc \in {"idle", "returned"}
    /\ runs < MaxRuns
    /\ runs' = runs + 1
    /\ now' \in {now, IF now < MaxClock THEN now + 1 ELSE now}
    /\ run' = [IdleRun EXCEPT !.entry = "cli", !.pc = "auth", !.name = name,
                              !.force = force,
                              !.authenticated_at_start = is_authenticated,
                              !.pre = Snapshot]
    /\ UNCHANGED <<aux, auth_token, package_json, node_modules, applications,
                   deployments, uploaded, tmp_files>>

\* `aether deploy` typed in the dashboard's terminal
dash_deploy ==
    /\ run.pc \in {"idle", "returned"}
    /\ runs < MaxRuns
    /\ runs' = runs + 1
    /\ now' \in {now, IF now < MaxClock THEN now + 1 ELSE now}
    /\ run' = [IdleRun EXCEPT !.entry = "dash", !.pc = "auth",
                              !.authenticated_at_start = is_authenticated,
                              !.pre = Snapshot]
    /\ UNCHANGED <<aux, auth_token, package_json, node_modules, applications,
                   deployments, uploaded, tmp_files>>

\* --------------------------------------------- commands.rs deploy_command
\* cli_check_auth without the early return
cli_check_auth_no_return ==
    /\ run.entry = "cli" /\ run.pc = "auth"
    /\ run' = Step(run, "builder", "auth", "ok")
    /\ UNCHANGED env

\* Config::load and the authentication check
cli_check_auth ==
    /\ run.entry = "cli" /\ run.pc = "auth"
    /\ run' = IF ~is_authenticated
              THEN ReturnOk(Step(run, "auth", "auth", "ok"), "not_authenticated")
              ELSE Step(run, "builder", "auth", "ok")
    /\ UNCHANGED env

\* ProjectBuilder::new: read and parse package.json
cli_new_builder ==
    /\ run.entry = "cli" /\ run.pc = "builder"
    /\ run' = IF package_json.file = "missing" THEN ReturnErr(run, "missing_manifest")
              ELSE IF package_json.file = "malformed" THEN ReturnErr(run, "malformed_manifest")
              ELSE Step(run, "validate", "manifest", "ok")
    /\ UNCHANGED env

\* the given name, else the manifest's name, checked by validate_app_name
cli_validate ==
    /\ run.entry = "cli" /\ run.pc = "validate"
    /\ LET app_name == IF is_some(run.name) THEN unwrap(run.name) ELSE get_app_name
           started == [run EXCEPT !.trace = Append(@, Ev("validate", "begin"))]
       IN run' = IF validate_app_name(app_name) # "Ok"
                 THEN ReturnErr(started, "validate")
                 ELSE [Step(started, "find", "validate", "ok")
                          EXCEPT !.app_name = Some(app_name)]
    /\ UNCHANGED env

\* cli_find_app that takes every name for a new one
cli_find_app_always_new ==
    /\ run.entry = "cli" /\ run.pc = "find"
    /\ \E ok \in BOOLEAN :
         LET sent == Request(run)
         IN run' = IF ~ok THEN ReturnErr(sent, "find")
                   ELSE Step(sent, "create", "find", "ok")
    /\ UNCHANGED env

\* find_app_by_name, then the branch on the existing application
cli_find_app ==
    /\ run.entry = "cli" /\ run.pc = "find"
    /\ \E ok \in BOOLEAN :
         LET sent == Request(run)
             i == find_app_by_name(unwrap(run.app_name))
         IN run' = IF ~ok THEN ReturnErr(sent, "find")
                   ELSE IF i = 0 THEN Step(sent, "create", "find", "ok")
                   ELSE IF ~run.force
                        THEN [Step(sent, "confirm", "find", "ok")
                                 EXCEPT !.existing = TRUE, !.app_id = applications[i].id]
                   ELSE [Step(sent, "install", "find", "ok")
                            EXCEPT !.existing = TRUE, !.app_id = applications[i].id]
    /\ UNCHANGED env

\* cli_confirm with the answer not looked at
cli_confirm_ignored ==
    /\ run.entry = "cli" /\ run.pc = "confirm"
    /\ \E answer \in {"yes", "no", "error"} :
         run' = IF answer = "error" THEN ReturnErr(run, "confirm")
                ELSE [Step(run, "install", "confirm", "ok") EXCEPT !.answer = answer]
    /\ UNCHANGED env

\* utils::confirm: the operator answers, or the dialog fails
cli_confirm ==
    /\ run.entry = "cli" /\ run.pc = "confirm"
    /\ \E answer \in {"yes", "no", "error"} :
         run' = IF answer = "error" THEN ReturnErr(run, "confirm")
                ELSE IF answer = "no"
                     THEN ReturnOk([Step(run, "confirm", "confirm", "ok")
                                       EXCEPT !.answer = "no"], "declined")
                ELSE [Step(run, "install", "confirm", "ok") EXCEPT !.answer = "yes"]
    /\ UNCHANGED env

\* client.create_application
cli_create_app ==
    /\ run.entry = "cli" /\ run.pc = "create"
    /\ \E ok \in BOOLEAN :
         LET sent == Request(run)
             id == Len(applications) + 1
         IN IF ok
            THEN /\ applications' = Append(applications,
                                           [id |-> id, name |-> unwrap(run.app_name)])
                 /\ run' = [Step(sent, "install", "create", "ok") EXCEPT !.app_id = id]
            ELSE /\ run' = ReturnErr(sent, "create")
                 /\ UNCHANGED applications
    /\ UNCHANGED <<aux, auth_token, package_json, node_modules, deployments,
                   uploaded, tmp_files, now, runs>>

\* ------------------------------------------- builder.rs ProjectBuilder::build
\* install_dependencies that spawns the install whatever node_modules holds
install_dependencies_always ==
    /\ run.entry = "cli" /\ run.pc = "install"
    /\ LET started == [run EXCEPT !.trace = Append(@, Ev("install", "begin"))]
       IN run' = [Spawn(started) EXCEPT !.pc = "installing"]
    /\ UNCHANGED env

\* install_dependencies: skip when node_modules exists and is non-empty,
\* else spawn `<manager> install --production`
install_dependencies ==
    /\ run.entry = "cli" /\ run.pc = "install"
    /\ LET started == [run EXCEPT !.trace = Append(@, Ev("install", "begin"))]
       IN run' = IF node_modules = "populated"
                 THEN Step(started, "build_script", "install", "skip")
                 ELSE [Spawn(started) EXCEPT !.pc = "installing"]
    /\ UNCHANGED env

\* cmd.output() of the install subprocess returns
install_dependencies_exit ==
    /\ run.entry = "cli" /\ run.pc = "installing"
    /\ \E ok \in BOOLEAN :
         IF ok
         THEN /\ run' = Step(run, "build_script", "install", "ok")
              /\ node_modules' \in {node_modules, "populated"}
         ELSE /\ run' = ReturnErr(run, "install")
              /\ UNCHANGED node_modules
    /\ UNCHANGED <<aux, auth_token, package_json, applications, deployments,
                   uploaded, tmp_files, now, runs>>

\* run_build_script: the first of build, compile, prepare that is defined
build_script_of(scripts) ==
    IF ~is_some(scripts) THEN None
    ELSE IF "build" \in unwrap(scripts) THEN Some("build")
    ELSE IF "compile" \in unwrap(scripts) THEN Some("compile")
    ELSE IF "prepare" \in unwrap(scripts) THEN Some("prepare")
    ELSE None

run_build_script ==
    /\ run.entry = "cli" /\ run.pc = "build_script"
    /\ LET started == [run EXCEPT !.trace = Append(@, Ev("build", "begin"))]
       IN run' = IF is_some(build_script_of(package_json.scripts))
                 THEN [Spawn(started) EXCEPT !.pc = "building"]
                 ELSE Step(started, "artifact", "build", "skip")
    /\ UNCHANGED env

\* run_build_script_exit with a failed build logged and the pipeline continued
run_build_script_exit_swallowed ==
    /\ run.entry = "cli" /\ run.pc = "building"
    /\ \E ok \in BOOLEAN :
         run' = IF ok THEN Step(run, "artifact", "build", "ok")
                ELSE Step(run, "artifact", "build", "err")
    /\ UNCHANGED env

\* cmd.output() of the build subprocess returns
run_build_script_exit ==
    /\ run.entry = "cli" /\ run.pc = "building"
    /\ \E ok \in BOOLEAN :
         run' = IF ok THEN Step(run, "artifact", "build", "ok")
                ELSE ReturnErr(run, "build")
    /\ UNCHANGED env

\* create_artifact: File::create(output_path) at the default temp path
create_artifact ==
    /\ run.entry = "cli" /\ run.pc = "artifact"
    /\ LET started == [run EXCEPT !.trace = Append(@, Ev("package", "begin")),
                                 !.artifact_path = Some(artifact_path_of)]
       IN \E ok \in BOOLEAN :
            IF ok
            THEN /\ tmp_files' = tmp_files \cup {artifact_path_of}
                 /\ run' = [started EXCEPT !.pc = "archiving", !.created = TRUE]
            ELSE /\ run' = ReturnErr(started, "package")
                 /\ UNCHANGED tmp_files
    /\ UNCHANGED <<aux, auth_token, package_json, node_modules, applications,
                   deployments, uploaded, now, runs>>

\* create_artifact: the entries are appended and tar.finish() returns
create_artifact_finish ==
    /\ run.entry = "cli" /\ run.pc = "archiving"
    /\ \E ok \in BOOLEAN :
         run' = IF ok THEN Step(run, "metadata", "package", "ok")
                ELSE ReturnErr(run, "package")
    /\ UNCHANGED env

\* ------------------------------- commands.rs deploy_command, after the build
\* std::fs::metadata(&artifact_path)? for the size shown
cli_metadata ==
    /\ run.entry = "cli" /\ run.pc = "metadata"
    /\ \E ok \in BOOLEAN :
         run' = IF ok /\ unwrap(run.artifact_path) \in tmp_files
                THEN Step(run, "upload", "metadata", "ok")
                ELSE ReturnErr(run, "metadata")
    /\ UNCHANGED env

\* presigned_uploader.upload_artifact is called
cli_upload ==
    /\ run.entry = "cli" /\ run.pc = "upload"
    /\ run' = [Request(run) EXCEPT !.pc = "uploading",
                                   !.trace = Append(@, Ev("upload", "begin"))]
    /\ UNCHANGED env

\* cli_upload_done with the upload's error ignored
cli_upload_done_unchecked ==
    /\ run.entry = "cli" /\ run.pc = "uploading"
    /\ \E ok \in BOOLEAN :
         LET url == storage_url(run.app_id, get_version)
         IN IF ok
            THEN /\ uploaded' = uploaded \cup {url}
                 /\ run' = [Step(run, "deploy", "upload", "ok")
                               EXCEPT !.artifact_url = Some(url)]
            ELSE /\ run' = [Step(run, "deploy", "upload", "err")
                               EXCEPT !.artifact_url = Some(url)]
                 /\ UNCHANGED uploaded
    /\ UNCHANGED <<aux, auth_token, package_json, node_modules, applications,
                   deployments, tmp_files, now, runs>>

\* upload_artifact returns (artifact_url, presigned_url) or an error
cli_upload_done ==
    /\ run.entry = "cli" /\ run.pc = "uploading"
    /\ \E ok \in BOOLEAN :
         LET url == storage_url(run.app_id, get_version)
         IN IF ok
            THEN /\ uploaded' = uploaded \cup {url}
                 /\ run' = [Step(run, "deploy", "upload", "ok")
                               EXCEPT !.artifact_url = Some(url)]
            ELSE /\ run' = ReturnErr(run, "upload")
                 /\ UNCHANGED uploaded
    /\ UNCHANGED <<aux, auth_token, package_json, node_modules, applications,
                   deployments, tmp_files, now, runs>>

\* client.deploy_application(app.id, version, artifact_url) is sent
cli_register ==
    /\ run.entry = "cli" /\ run.pc = "deploy"
    /\ run' = [Request(run) EXCEPT !.pc = "deploying",
                                   !.trace = Append(@, Ev("register", "begin"))]
    /\ UNCHANGED env

\* deploy_application returns the Deployment or an error
cli_register_done ==
    /\ run.entry = "cli" /\ run.pc = "deploying"
    /\ \E ok \in BOOLEAN :
         IF ok
         THEN /\ deployments' = Append(deployments,
                                       [app_id |-> run.app_id, version |-> get_version,
                                        artifact_url |-> unwrap(run.artifact_url)])
              /\ run' = Step(run, "cleanup", "register", "ok")
         ELSE /\ run' = ReturnErr(run, "register")
              /\ UNCHANGED deployments
    /\ UNCHANGED <<aux, auth_token, package_json, node_modules, applications,
                   uploaded, tmp_files, now, runs>>

\* std::fs::remove_file(&artifact_path)?, then Ok(())
cli_cleanup ==
    /\ run.entry = "cli" /\ run.pc = "cleanup"
    /\ \E removed \in BOOLEAN :
         IF removed /\ unwrap(run.artifact_path) \in tmp_files
         THEN /\ tmp_files' = tmp_files \ {unwrap(run.artifact_path)}
              /\ run' = ReturnOk(Step(run, "cleanup", "cleanup", "ok"), "success")
         ELSE /\ run' = ReturnErr(run, "cleanup")
              /\ UNCHANGED tmp_files
    /\ UNCHANGED <<aux, auth_token, package_json, node_modules, applications,
                   deployments, uploaded, now, runs>>

\* --------------------- terminal_dashboard.rs: the dashboard's `aether deploy`
\* execute_aether_command "deploy": the is_authenticated flag refreshed by
\* execute_command from the stored configuration
dash_check_auth ==
    /\ run.entry = "dash" /\ run.pc = "auth"
    /\ run' = IF ~is_authenticated
              THEN ReturnOk(Step(run, "auth", "auth", "ok"), "not_authenticated")
              ELSE Step(run, "builder", "auth", "ok")
    /\ UNCHANGED env

\* deploy_current_project: ProjectBuilder::new and get_app_name
dash_new_builder ==
    /\ run.entry = "dash" /\ run.pc = "builder"
    /\ run' = IF package_json.file = "missing" THEN ReturnErr(run, "missing_manifest")
              ELSE IF package_json.file = "malformed" THEN ReturnErr(run, "malformed_manifest")
              ELSE [Step(run, "find", "manifest", "ok")
                       EXCEPT !.app_name = Some(get_app_name)]
    /\ UNCHANGED env

\* deploy_current_project: find_app_by_name; an existing application is used
dash_find_app ==
    /\ run.entry = "dash" /\ run.pc = "find"
    /\ \E ok \in BOOLEAN :
         LET sent == Request(run)
             i == find_app_by_name(unwrap(run.app_name))
         IN run' = IF ~ok THEN ReturnErr(sent, "find")
                   ELSE IF i = 0 THEN Step(sent, "create", "find", "ok")
                   ELSE [Step(sent, "install", "find", "ok")
                            EXCEPT !.existing = TRUE, !.app_id = applications[i].id]
    /\ UNCHANGED env

\* deploy_current_project: self.client.create_application
dash_create_app ==
    /\ run.entry = "dash" /\ run.pc = "create"
    /\ \E ok \in BOOLEAN :
         LET sent == Request(run)
             id == Len(applications) + 1
         IN IF ok
            THEN /\ applications' = Append(applications,
                                           [id |-> id, name |-> unwrap(run.app_name)])
                 /\ run' = [Step(sent, "install", "create", "ok") EXCEPT !.app_id = id]
            ELSE /\ run' = ReturnErr(sent, "create")
                 /\ UNCHANGED applications
    /\ UNCHANGED <<aux, auth_token, package_json, node_modules, deployments,
                   uploaded, tmp_files, now, runs>>

\* build_project_silent: `npm install` when node_modules does not exist
build_project_silent_install ==
    /\ run.entry = "dash" /\ run.pc = "install"
    /\ LET started == [run EXCEPT !.trace = Append(@, Ev("install", "begin"))]
       IN run' = IF node_modules # "absent"
                 THEN Step(started, "build_script", "install", "skip")
                 ELSE [Spawn(started) EXCEPT !.pc = "installing"]
    /\ UNCHANGED env

build_project_silent_install_exit ==
    /\ run.entry = "dash" /\ run.pc = "installing"
    /\ \E ok \in BOOLEAN :
         IF ok
         THEN /\ run' = Step(run, "build_script", "install", "ok")
              /\ node_modules' \in {node_modules, "populated"}
         ELSE /\ run' = ReturnErr(run, "install")
              /\ UNCHANGED node_modules
    /\ UNCHANGED <<aux, auth_token, package_json, applications, deployments,
                   uploaded, tmp_files, now, runs>>

\* build_project_silent: `npm run build` when scripts contains "build"
build_project_silent_build ==
    /\ run.entry = "dash" /\ run.pc = "build_script"
    /\ LET started == [run EXCEPT !.trace = Append(@, Ev("build", "begin"))]
       IN run' = IF is_some(package_json.scripts) /\ "build" \in unwrap(package_json.scripts)
                 THEN [Spawn(started) EXCEPT !.pc = "building"]
                 ELSE Step(started, "artifact", "build", "skip")
    /\ UNCHANGED env

build_project_silent_build_exit ==
    /\ run.entry = "dash" /\ run.pc = "building"
    /\ \E ok \in BOOLEAN :
         run' = IF ok THEN Step(run, "artifact", "build", "ok")
                ELSE ReturnErr(run, "build")
    /\ UNCHANGED env

\* create_artifact_silent: File::create(temp_dir/<name>.tar.gz)
create_artifact_silent ==
    /\ run.entry = "dash" /\ run.pc = "artifact"
    /\ LET started == [run EXCEPT !.trace = Append(@, Ev("package", "begin")),
                                 !.artifact_path = Some(artifact_path_of)]
       IN \E ok \in BOOLEAN :
            IF ok
            THEN /\ tmp_files' = tmp_files \cup {artifact_path_of}
                 /\ run' = [started EXCEPT !.pc = "archiving", !.created = TRUE]
            ELSE /\ run' = ReturnErr(started, "package")
                 /\ UNCHANGED tmp_files
    /\ UNCHANGED <<aux, auth_token, package_json, node_modules, applications,
                   deployments, uploaded, now, runs>>

\* create_artifact_silent: add_directory_to_tar and tar.finish()
create_artifact_silent_finish ==
    /\ run.entry = "dash" /\ run.pc = "archiving"
    /\ \E ok \in BOOLEAN :
         run' = IF ok THEN Step(run, "upload", "package", "ok")
                ELSE ReturnErr(run, "package")
    /\ UNCHANGED env

\* upload_to_s3_silent calls presigned_uploader.upload_artifact
dash_upload ==
    /\ run.entry = "dash" /\ run.pc = "upload"
    /\ run' = [Request(run) EXCEPT !.pc = "uploading",
                                   !.trace = Append(@, Ev("upload", "begin"))]
    /\ UNCHANGED env

dash_upload_done ==
    /\ run.entry = "dash" /\ run.pc = "uploading"
    /\ \E ok \in BOOLEAN :
         LET url == storage_url(run.app_id, get_version)
         IN IF ok
            THEN /\ uploaded' = uploaded \cup {url}
                 /\ run' = [Step(run, "deploy", "upload", "ok")
                               EXCEPT !.artifact_url = Some(url)]
            ELSE /\ run' = ReturnErr(run, "upload")
                 /\ UNCHANGED uploaded
    /\ UNCHANGED <<aux, auth_token, package_json, node_modules, applications,
                   deployments, tmp_files, now, runs>>

\* deploy_current_project: self.client.deploy_application is sent
dash_register ==
    /\ run.entry = "dash" /\ run.pc = "deploy"
    /\ run' = [Request(run) EXCEPT !.pc = "deploying",
                                   !.trace = Append(@, Ev("register", "begin"))]
    /\ UNCHANGED env

\* deploy_application returns; on success deploy_current_project returns Ok(())
dash_register_done ==
    /\ run.entry = "dash" /\ run.pc = "deploying"
    /\ \E ok \in BOOLEAN :
         IF ok
         THEN /\ deployments' = Append(deployments,
                                       [app_id |-> run.app_id, version |-> get_version,
                                        artifact_url |-> unwrap(run.artifact_url)])
              /\ run' = ReturnOk(Step(run, "deploying", "register", "ok"), "success")
         ELSE /\ run' = ReturnErr(run, "register")
              /\ UNCHANGED deployments
    /\ UNCHANGED <<aux, auth_token, package_json, node_modules, applications,
                   uploaded, tmp_files, now, runs>>

\* ------------------------------------------------------------ specification
Next ==
    \/ \E name \in NameArgs, force \in BOOLEAN : cli_deploy(name, force)
    \/ dash_deploy
    \/ cli_check_auth
    \/ cli_new_builder
    \/ cli_validate
    \/ cli_find_app
    \/ cli_confirm
    \/ cli_create_app
    \/ install_dependencies
    \/ install_dependencies_exit
    \/ run_build_script
    \/ run_build_script_exit
    \/ create_artifact
    \/ create_artifact_finish
    \/ cli_metadata
    \/ cli_upload
    \/ cli_upload_done
    \/ cli_register
    \/ cli_register_done
    \/ cli_cleanup
    \/ dash_check_auth
    \/ dash_new_builder
    \/ dash_find_app
    \/ dash_create_app
    \/ build_project_silent_install
    \/ build_project_silent_install_exit
    \/ build_project_silent_build
    \/ build_project_silent_build_exit
    \/ create_artifact_silent
    \/ create_artifact_silent_finish
    \/ dash_upload
    \/ dash_upload_done
    \/ dash_register
    \/ dash_register_done

Spec == Init /\ [][Next]_vars

TypeOK ==
    /\ run.pc \in {"idle", "auth", "builder", "validate", "find", "confirm", "create",
                   "install", "installing", "build_script", "building", "artifact",
                   "archiving", "metadata", "upload", "uploading", "deploy",
                   "deploying", "cleanup", "returned"}
    /\ run.result \in {"none", "Ok", "Err"}
    /\ runs \in 0..MaxRuns

\* ------------------------------------------- deploy runs at the same time
\* Two `aether deploy` processes (CLI or dashboard) on one machine, from the
\* packaging step on; conc.file maps a temp path to the set of runs whose
\* bytes the file at that path holds.
MaxProcs == 2
Procs == 1..MaxProcs
ConcNames == {DemoApp, WebApp}

\* builder.rs:115-117 and terminal_dashboard.rs:2783: temp_dir()/<manifest name>.tar.gz
artifact_path(name) == <<"tmp">> \o name \o <<".tar.gz">>

IdleProc ==
    [entry |-> "none", pc |-> "idle", name |-> <<>>, path |-> <<>>,
     sent |-> {}, removed |-> {}, result |-> "none"]

ConcInit ==
    /\ auth_token = Some("token")
    /\ package_json = [file |-> "ok", name |-> DemoApp, version |-> None, scripts |-> None]
    /\ node_modules = "populated"
    /\ applications = <<>>
    /\ deployments = <<>>
    /\ uploaded = {}
    /\ tmp_files = {}
    /\ now = 0
    /\ runs = 0
    /\ run = IdleRun
    /\ remote_log = <<>>
    /\ follow = [pc |-> "idle"]
    /\ dash = [pc |-> "idle"]
    /\ conc = [proc |-> [p \in Procs |-> IdleProc], file |-> {}]
    /\ s3 = <<>>
    /\ call = <<>>
    /\ shell = <<>>
    /\ tui = <<>>

conc_frame ==
    UNCHANGED <<remote_log, follow, dash, s3, call, shell, tui, auth_token, package_json, node_modules,
                applications, deployments, uploaded, tmp_files, now, runs, run>>

Proc(p) == conc.proc[p]
SetProc(p, r) == [conc EXCEPT !.proc[p] = r]
FileAt(path) == {f \in conc.file : f.path = path}

\* a run reaches builder.build / build_project_silent in a project whose
\* manifest is named `name`
conc_build(p, entry, name) ==
    /\ Proc(p).pc = "idle"
    /\ conc' = SetProc(p, [IdleProc EXCEPT !.entry = entry, !.name = name,
                                            !.pc = "artifact",
                                            !.path = artifact_path(name)])
    /\ conc_frame

\* File::create(path): creates or truncates the file at the path
conc_create_artifact(p) ==
    /\ Proc(p).pc = "artifact"
    /\ \E ok \in BOOLEAN :
         IF ok
         THEN conc' = [conc EXCEPT
                         !.proc[p].pc = "archiving",
                         !.file = (@ \ FileAt(Proc(p).path))
                                  \cup {[path |-> Proc(p).path, bytes |-> {}]}]
         ELSE conc' = SetProc(p, [Proc(p) EXCEPT !.pc = "returned", !.result = "Err"])
    /\ conc_frame

\* the tar entries are written through the open handle and tar.finish()
\* returns; the bytes land in the file the path names, if it still names one
conc_create_artifact_finish(p) ==
    /\ Proc(p).pc = "archiving"
    /\ conc' = [conc EXCEPT
                  !.proc[p].pc = "upload",
                  !.file = {[f EXCEPT !.bytes = IF f.path = Proc(p).path
                                                THEN @ \cup {p} ELSE @] : f \in @}]
    /\ conc_frame

\* fs::metadata / File::open of the artifact path, then the PUT of its bytes
conc_upload(p) ==
    /\ Proc(p).pc = "upload"
    /\ IF FileAt(Proc(p).path) = {}
       THEN conc' = SetProc(p, [Proc(p) EXCEPT !.pc = "returned", !.result = "Err"])
       ELSE \E f \in FileAt(Proc(p).path), ok \in BOOLEAN :
              conc' = SetProc(p, IF ok
                                 THEN [Proc(p) EXCEPT !.pc = "deploy", !.sent = f.bytes]
                                 ELSE [Proc(p) EXCEPT !.pc = "returned", !.result = "Err"])
    /\ conc_frame

\* deploy_application; the dashboard returns here, the CLI goes on to clean up
conc_register(p) ==
    /\ Proc(p).pc = "deploy"
    /\ \E ok \in BOOLEAN :
         conc' = SetProc(p,
                   IF ~ok THEN [Proc(p) EXCEPT !.pc = "returned", !.result = "Err"]
                   ELSE IF Proc(p).entry = "cli" THEN [Proc(p) EXCEPT !.pc = "cleanup"]
                   ELSE [Proc(p) EXCEPT !.pc = "returned", !.result = "Ok"])
    /\ conc_frame

\* commands.rs:457 std::fs::remove_file(&artifact_path)?
conc_cleanup(p) ==
    /\ Proc(p).pc = "cleanup"
    /\ IF FileAt(Proc(p).path) = {}
       THEN conc' = SetProc(p, [Proc(p) EXCEPT !.pc = "returned", !.result = "Err"])
       ELSE \E f \in FileAt(Proc(p).path) :
              conc' = [conc EXCEPT
                         !.proc[p] = [@ EXCEPT !.pc = "returned", !.result = "Ok",
                                               !.removed = f.bytes],
                         !.file = @ \ {f}]
    /\ conc_frame

ConcNext ==
    \/ \E p \in Procs, entry \in {"cli", "dash"}, name \in ConcNames :
          conc_build(p, entry, name)
    \/ \E p \in Procs : conc_create_artifact(p)
    \/ \E p \in Procs : conc_create_artifact_finish(p)
    \/ \E p \in Procs : conc_upload(p)
    \/ \E p \in Procs : conc_register(p)
    \/ \E p \in Procs : conc_cleanup(p)

SpecConc == ConcInit /\ [][ConcNext]_vars

\* the run holds a temp artifact path it has not finished with
Running(p) == Proc(p).pc \in {"artifact", "archiving", "upload", "deploy", "cleanup"}

\* ------------------------------------------ commands.rs logs_command --follow
\* A log text is the sequence of the strings of the response's `logs` array,
\* which get_logs joins with "\n".
MaxLog == 2        \* lines the remote log holds at most
MaxWritten == 2    \* non-blank lines the application writes in all
MaxPolls == 2      \* poll ticks a session makes after an interrupt it survived
FollowLimit == 200
DefaultLines == 100
LinesArgs == {1, DefaultLines}
Letters == <<"a", "b", "c", "d", "e", "f">>

\* str::trim().is_empty() of a single line
blank_line(l) == l \in {"", " "}
\* str::trim().is_empty() of the joined text
blank(text) == \A i \in 1..Len(text) : blank_line(text[i])
\* str::lines() of the joined text: split at "\n", a final empty piece dropped
lines(text) ==
    IF text = <<>> THEN <<>>
    ELSE IF text[Len(text)] = "" THEN SubSeq(text, 1, Len(text) - 1)
    ELSE text

\* the server's answer to ?lines=n: the most recent n lines
last_n(log, n) == IF Len(log) <= n THEN log ELSE SubSeq(log, Len(log) - n + 1, Len(log))

Printed(kind, ls) == [i \in 1..Len(ls) |-> [kind |-> kind, text |-> ls[i]]]

\* the growth branch without the skip: every non-blank line of the fetch
new_lines_unskipped(last_lines, current_lines) ==
    Printed("new", SelectSeq(current_lines, LAMBDA l : ~blank_line(l)))

\* current_lines.iter().skip(last_lines.len()), the non-blank ones printed
new_lines(last_lines, current_lines) ==
    Printed("new", SelectSeq(SubSeq(current_lines, Len(last_lines) + 1, Len(current_lines)),
                             LAMBDA l : ~blank_line(l)))

\* the notice printed whether or not the last line changed
latest_notice_always(last_lines, current_lines) ==
    Printed("latest", <<current_lines[Len(current_lines)]>>)

\* last_line != current_last_line => one "Latest:" line
latest_notice(last_lines, current_lines) ==
    IF last_lines[Len(last_lines)] # current_lines[Len(current_lines)]
    THEN Printed("latest", <<current_lines[Len(current_lines)]>>)
    ELSE <<>>

\* the cursor replaced on every tick
cursor_after_always(emitted, last_logs, current_logs) == current_logs

\* if new_content { last_logs = current_logs }
cursor_after(emitted, last_logs, current_logs) ==
    IF emitted # <<>> THEN current_logs ELSE last_logs

\* the Ok arm of one tick: what is printed and the cursor afterwards
follow_diff(last_logs, current_logs) ==
    LET current_lines == lines(current_logs)
        last_lines == lines(last_logs)
        emitted ==
            IF blank(current_logs) \/ current_lines = <<>> THEN <<>>
            ELSE IF Len(current_lines) > Len(last_lines)
                 THEN new_lines(last_lines, current_lines)
            ELSE IF last_lines # <<>> /\ current_lines # <<>>
                 THEN latest_notice(last_lines, current_lines)
            ELSE <<>>
    IN [emitted |-> emitted,
        last_logs |-> cursor_after(emitted, last_logs, current_logs)]

\* ApiClient::get_logs on a 2xx answer of the control plane, whose body
\* carries the `logs` array: the array's strings, to be joined with "\n"
Responses(n) == {last_n(remote_log, n)}

IdleFollow ==
    [pc |-> "idle", lines |-> 0, last_logs |-> <<>>, out |-> <<>>,
     cancelled |-> FALSE, after_cancel |-> 0,
     fetched |-> <<>>, chain |-> FALSE, grow_only |-> TRUE, written |-> 0,
     result |-> "none"]

FollowInit ==
    /\ auth_token \in {None, Some("token")}
    /\ package_json = [file |-> "ok", name |-> DemoApp, version |-> None, scripts |-> None]
    /\ node_modules = "populated"
    /\ applications = <<[name |-> DemoApp, id |-> 1]>>
    /\ deployments = <<>>
    /\ uploaded = {}
    /\ tmp_files = {}
    /\ now = 0
    /\ runs = 0
    /\ run = IdleRun
    /\ remote_log = <<>>
    /\ follow = IdleFollow
    /\ dash = [pc |-> "idle"]
    /\ conc = <<>>
    /\ s3 = <<>>
    /\ call = <<>>
    /\ shell = <<>>
    /\ tui = <<>>

follow_frame ==
    UNCHANGED <<dash, conc, s3, call, shell, tui, auth_token, package_json, node_modules, applications,
                deployments, uploaded, tmp_files, now, runs, run>>

\* the application writes a line: its next message or a blank line
log_append ==
    /\ Len(remote_log) < MaxLog
    /\ \/ /\ follow.written < MaxWritten
          /\ remote_log' = Append(remote_log, Letters[follow.written + 1])
          /\ follow' = [follow EXCEPT !.written = @ + 1]
       \/ /\ remote_log' = Append(remote_log, " ")
          /\ UNCHANGED follow
    /\ follow_frame

\* the server rotates the log: the oldest line is gone
log_rotate ==
    /\ remote_log # <<>>
    /\ remote_log' = last_n(remote_log, Len(remote_log) - 1)
    /\ follow' = [follow EXCEPT !.grow_only = FALSE]
    /\ follow_frame

\* `aether logs --follow --lines n`: without a token it returns at once, and
\* it returns the error when the application cannot be resolved
logs_command(n) ==
    /\ follow.pc = "idle"
    /\ \E resolved \in BOOLEAN :
         follow' = IF ~is_authenticated
                   THEN [follow EXCEPT !.pc = "returned", !.result = "Ok"]
                   ELSE IF ~resolved
                   THEN [follow EXCEPT !.pc = "returned", !.result = "Err"]
                   ELSE [follow EXCEPT !.pc = "baseline", !.lines = n]
    /\ UNCHANGED remote_log
    /\ follow_frame

\* let mut last_logs = client.get_logs(app_id, Some(lines)).await?; printed
\* when not blank
follow_baseline ==
    /\ follow.pc = "baseline"
    /\ \/ \E text \in Responses(follow.lines) :
            follow' = [follow EXCEPT
                         !.pc = "loop", !.last_logs = text, !.fetched = text,
                         !.chain = TRUE,
                         !.out = IF blank(text) THEN @ ELSE @ \o Printed("baseline", text)]
       \/ follow' = [follow EXCEPT !.pc = "returned", !.result = "Err"]
    /\ UNCHANGED remote_log
    /\ follow_frame

\* the fetch results so far are each the one before with non-blank lines appended
Appended(previous, text) ==
    /\ Len(text) > Len(previous)
    /\ SubSeq(text, 1, Len(previous)) = previous
    /\ \A i \in (Len(previous) + 1)..Len(text) : ~blank_line(text[i])

\* follow_tick whose Err arm prints the error and goes on polling
follow_tick_err_continues ==
    /\ follow.pc = "loop"
    /\ follow.after_cancel < MaxPolls
    /\ LET polled == [follow EXCEPT !.after_cancel = IF follow.cancelled THEN @ + 1 ELSE @]
       IN \/ \E text \in Responses(FollowLimit) :
               LET d == follow_diff(follow.last_logs, text)
               IN follow' = [polled EXCEPT
                               !.last_logs = d.last_logs,
                               !.out = @ \o d.emitted,
                               !.chain = @ /\ Appended(follow.fetched, text),
                               !.fetched = text]
          \/ /\ Len(follow.out) < MaxLog + MaxPolls
             /\ follow' = [polled EXCEPT
                             !.out = Append(@, [kind |-> "error", text |-> "Error fetching logs"])]
    /\ UNCHANGED remote_log
    /\ follow_frame

\* one iteration of the loop: interval.tick().await, then
\* get_logs(app_id, Some(200)); the Ok arm diffs and prints, the Err arm
\* prints the error and breaks
follow_tick ==
    /\ follow.pc = "loop"
    /\ follow.after_cancel < MaxPolls
    /\ LET polled == [follow EXCEPT !.after_cancel = IF follow.cancelled THEN @ + 1 ELSE @]
       IN \/ \E text \in Responses(FollowLimit) :
               LET d == follow_diff(follow.last_logs, text)
               IN follow' = [polled EXCEPT
                               !.last_logs = d.last_logs,
                               !.out = @ \o d.emitted,
                               !.chain = @ /\ Appended(follow.fetched, text),
                               !.fetched = text]
          \/ follow' = [polled EXCEPT
                          !.pc = "returned", !.result = "Ok",
                          !.out = Append(@, [kind |-> "error", text |-> "Error fetching logs"])]
    /\ UNCHANGED remote_log
    /\ follow_frame

\* the user's interrupt reaches the process. logs_command installs no
\* handler and the loop reads no flag: the signal's inherited disposition
\* decides, which terminates the process (default) or does nothing (ignored)
interrupt ==
    /\ follow.pc \in {"baseline", "loop"}
    /\ ~follow.cancelled
    /\ \E disposition \in {"default", "ignored"} :
         follow' = IF disposition = "default"
                   THEN [follow EXCEPT !.cancelled = TRUE, !.pc = "killed"]
                   ELSE [follow EXCEPT !.cancelled = TRUE]
    /\ UNCHANGED remote_log
    /\ follow_frame

FollowNext ==
    \/ log_append
    \/ log_rotate
    \/ \E n \in LinesArgs : logs_command(n)
    \/ follow_baseline
    \/ follow_tick
    \/ interrupt

SpecFollow == FollowInit /\ [][FollowNext]_vars

\* a step that is the Ok arm of a poll tick
IsTick ==
    /\ follow.pc = "loop" /\ follow'.pc = "loop"
    /\ follow'.cancelled = follow.cancelled
    /\ UNCHANGED remote_log
\* what that tick printed
Emitted == SubSeq(follow'.out, Len(follow.out) + 1, Len(follow'.out))
\* slice::last()
LastLine(ls) == IF ls = <<>> THEN None ELSE Some(ls[Len(ls)])
\* the tick's fetch has no more lines than the cursor
NoGrowth == Len(lines(follow'.fetched)) <= Len(lines(follow.last_logs))
\* the single "Latest" notice, or nothing, as the last lines differ or not;
\* a fetch without lines has no last line to report
NoticeIfChanged ==
    IF /\ lines(follow'.fetched) # <<>>
       /\ LastLine(lines(follow'.fetched)) # LastLine(lines(follow.last_logs))
    THEN Emitted = Printed("latest", <<unwrap(LastLine(lines(follow'.fetched)))>>)
    ELSE Emitted = <<>>

\* ------------------------------- terminal_dashboard.rs log streaming and keys
MaxCommands == 2   \* follow commands typed in one dashboard session
InitialLines == 20
StreamLimit == 100
FollowCommand == "logs --follow"

IdleDashboard ==
    [pc |-> "running", current_tab |-> 0, command_input |-> "", commands |-> 0,
     is_streaming_logs |-> FALSE, streaming_app_id |-> None,
     last_log_content |-> <<>>, output_lines |-> <<>>,
     stop_pressed |-> FALSE, fetched_after_stop |-> FALSE]

DashInit ==
    /\ auth_token = Some("token")
    /\ package_json = [file |-> "ok", name |-> DemoApp, version |-> None, scripts |-> None]
    /\ node_modules = "populated"
    /\ applications = <<[name |-> DemoApp, id |-> 1]>>
    /\ deployments = <<>>
    /\ uploaded = {}
    /\ tmp_files = {}
    /\ now = 0
    /\ runs = 0
    /\ run = IdleRun
    /\ remote_log = <<>>
    /\ follow = [pc |-> "idle"]
    /\ dash = IdleDashboard
    /\ conc = <<>>
    /\ s3 = <<>>
    /\ call = <<>>
    /\ shell = <<>>
    /\ tui = <<>>

dash_frame ==
    UNCHANGED <<follow, conc, s3, call, shell, tui, auth_token, package_json, node_modules, applications,
                deployments, uploaded, tmp_files, now, runs, run>>

\* the application writes its next log line
log_write ==
    /\ dash.pc = "running"
    /\ Len(remote_log) < MaxLog
    /\ remote_log' = Append(remote_log, Letters[Len(remote_log) + 1])
    /\ UNCHANGED dash
    /\ dash_frame

\* the operator types the follow command on the Terminal tab
key_char ==
    /\ dash.pc = "running"
    /\ dash.current_tab = 0 /\ dash.command_input = ""
    /\ dash.commands < MaxCommands
    /\ dash' = [dash EXCEPT !.command_input = FollowCommand, !.commands = @ + 1]
    /\ UNCHANGED remote_log
    /\ dash_frame

\* Enter on the Terminal tab runs the command: `logs --follow` looks the
\* application up, turns streaming on and shows the initial logs
key_enter ==
    /\ dash.pc = "running"
    /\ dash.current_tab = 0 /\ dash.command_input = FollowCommand
    /\ LET entered == [dash EXCEPT !.command_input = ""]
           app == find_app_by_name(get_app_name)
           logs == last_n(remote_log, InitialLines)
       IN \/ /\ app # 0
             /\ \E fetched \in BOOLEAN :
                  dash' = [entered EXCEPT
                             !.is_streaming_logs = TRUE,
                             !.streaming_app_id = Some(applications[app].id),
                             !.stop_pressed = FALSE,
                             !.fetched_after_stop = FALSE,
                             !.last_log_content = IF fetched THEN logs ELSE @,
                             !.output_lines = IF fetched /\ ~blank(logs)
                                              THEN @ \o lines(logs) ELSE @]
          \/ dash' = entered
    /\ UNCHANGED remote_log
    /\ dash_frame

\* Tab: completion while a command is being typed, else the next of the 4 tabs
key_tab ==
    /\ dash.pc = "running"
    /\ ~(dash.current_tab = 0 /\ dash.command_input # "")
    /\ dash' = [dash EXCEPT !.current_tab = (@ + 1) % 4]
    /\ UNCHANGED remote_log
    /\ dash_frame

\* Esc: on the Terminal tab it stops streaming; on the other tabs it does nothing
key_esc ==
    /\ dash.pc = "running"
    /\ dash' = [dash EXCEPT
                  !.stop_pressed = @ \/ dash.is_streaming_logs,
                  !.is_streaming_logs = IF dash.current_tab = 0 THEN FALSE ELSE @]
    /\ UNCHANGED remote_log
    /\ dash_frame

\* Ctrl+C: stops streaming when it is on, else quits the dashboard
key_ctrl_c ==
    /\ dash.pc = "running"
    /\ dash' = IF dash.is_streaming_logs
               THEN [dash EXCEPT !.stop_pressed = TRUE, !.is_streaming_logs = FALSE]
               ELSE [dash EXCEPT !.pc = "quit"]
    /\ UNCHANGED remote_log
    /\ dash_frame

\* the lines a streaming poll adds to the terminal output
stream_lines(last_log_content, logs) ==
    LET old_lines == lines(last_log_content)
        new_lines_ == lines(logs)
        latest == SubSeq(new_lines_, IF Len(new_lines_) > 3 THEN Len(new_lines_) - 2 ELSE 1,
                         Len(new_lines_))
    IN IF Len(new_lines_) > Len(old_lines)
       THEN SelectSeq(SubSeq(new_lines_, Len(old_lines) + 1, Len(new_lines_)),
                      LAMBDA l : ~blank_line(l))
       ELSE IF new_lines_ # old_lines
       THEN SelectSeq(latest, LAMBDA l : ~blank_line(l))
       ELSE <<>>

\* run_app: the streaming block of one loop iteration, once 250 ms have passed
stream_poll ==
    /\ dash.pc = "running"
    /\ dash.is_streaming_logs /\ is_some(dash.streaming_app_id)
    /\ LET polled == [dash EXCEPT !.fetched_after_stop = @ \/ dash.stop_pressed]
           logs == last_n(remote_log, StreamLimit)
       IN \/ dash' = IF ~blank(logs) /\ logs # dash.last_log_content
                     THEN [polled EXCEPT
                             !.output_lines = @ \o stream_lines(dash.last_log_content, logs),
                             !.last_log_content = logs]
                     ELSE polled
          \/ dash' = [polled EXCEPT !.is_streaming_logs = FALSE,
                                    !.streaming_app_id = None]
    /\ UNCHANGED remote_log
    /\ dash_frame

DashNext ==
    \/ log_write
    \/ key_char
    \/ key_enter
    \/ key_tab
    \/ key_esc
    \/ key_ctrl_c
    \/ stream_poll

SpecDash == DashInit /\ [][DashNext]_vars

\* ------------------------------------ s3_uploader.rs S3Uploader::upload_artifact
\* s3 is the sequence of the calls made so far, the last one the call in
\* progress; `uploaded` holds the keys of the bucket's objects.
MaxUploads == 2
AppIds == {1, 2}
UploadVersions == {"1.0.0", "2.0.0"}
PresignSeconds == 86400

\* format!("artifacts/{}/{}/{}.tar.gz", app_id, version, Utc::now().timestamp())
s3_key(app_id, version, timestamp) ==
    [app_id |-> app_id, version |-> version, timestamp |-> timestamp]

IdleUpload ==
    [pc |-> "head", app_id |-> 0, version |-> "", key |-> None, events |-> <<>>,
     result |-> "none", s3_url |-> None, presigned_url |-> None]

S3Init ==
    /\ auth_token = Some("token")
    /\ package_json = [file |-> "ok", name |-> DemoApp, version |-> None, scripts |-> None]
    /\ node_modules = "populated"
    /\ applications = <<>>
    /\ deployments = <<>>
    /\ uploaded = {}
    /\ tmp_files = {DemoApp}
    /\ now = 0
    /\ runs = 0
    /\ run = IdleRun
    /\ remote_log = <<>>
    /\ follow = [pc |-> "idle"]
    /\ dash = [pc |-> "idle"]
    /\ conc = <<>>
    /\ s3 = <<>>
    /\ call = <<>>
    /\ shell = <<>>
    /\ tui = <<>>

s3_frame ==
    UNCHANGED <<remote_log, follow, dash, conc, call, shell, tui, auth_token, package_json,
                node_modules, applications, deployments, tmp_files, runs, run>>

Upload == s3[Len(s3)]
InUpload(pc) == s3 # <<>> /\ Upload.pc = pc
SetUpload(u) == [s3 EXCEPT ![Len(s3)] = u]
Did(u, e) == [u EXCEPT !.events = Append(@, e)]
Fail(u) == [u EXCEPT !.pc = "returned", !.result = "Err"]

\* a second of wall-clock time passes
clock_tick ==
    /\ now < MaxClock
    /\ now' = now + 1
    /\ UNCHANGED <<s3, uploaded>>
    /\ s3_frame

\* upload_artifact(artifact_path, app_id, version) is called
upload_artifact(app_id, version) ==
    /\ IF s3 = <<>> THEN TRUE ELSE Upload.pc = "returned"
    /\ Len(s3) < MaxUploads
    /\ s3' = Append(s3, [IdleUpload EXCEPT !.app_id = app_id, !.version = version])
    /\ UNCHANGED <<now, uploaded>>
    /\ s3_frame

\* test_bucket_access whose failure is not propagated
test_bucket_access_unchecked ==
    /\ InUpload("head")
    /\ \E ok \in BOOLEAN :
         s3' = SetUpload([Did(Upload, IF ok THEN "head_ok" ELSE "head_err")
                             EXCEPT !.pc = "key"])
    /\ UNCHANGED <<now, uploaded>>
    /\ s3_frame

\* self.test_bucket_access().await?: head_bucket; on its failure list_buckets
\* is tried for the message and the error is returned either way
test_bucket_access ==
    /\ InUpload("head")
    /\ \E ok \in BOOLEAN :
         s3' = SetUpload(IF ok THEN [Did(Upload, "head_ok") EXCEPT !.pc = "key"]
                         ELSE Fail(Did(Did(Upload, "head_err"), "list_buckets")))
    /\ UNCHANGED <<now, uploaded>>
    /\ s3_frame

\* the key is formatted from the clock and the artifact file is read
read_artifact ==
    /\ InUpload("key")
    /\ LET keyed == [Upload EXCEPT !.key = Some(s3_key(Upload.app_id, Upload.version, now))]
       IN \E ok \in BOOLEAN :
            s3' = SetUpload(IF ok THEN [keyed EXCEPT !.pc = "put"] ELSE Fail(keyed))
    /\ UNCHANGED <<now, uploaded>>
    /\ s3_frame

\* put_request.send().await: an object under an existing key is replaced
put_object ==
    /\ InUpload("put")
    /\ \E ok \in BOOLEAN :
         IF ok
         THEN /\ s3' = SetUpload([Did(Did(Upload, "put"), "put_ok") EXCEPT !.pc = "presign"])
              /\ uploaded' = uploaded \cup {unwrap(Upload.key)}
         ELSE /\ s3' = SetUpload(Fail(Did(Did(Upload, "put"), "put_err")))
              /\ UNCHANGED uploaded
    /\ UNCHANGED now
    /\ s3_frame

\* self.get_presigned_url(&key, 86400).await?, then Ok((s3_url, presigned_url))
get_presigned_url ==
    /\ InUpload("presign")
    /\ \E ok \in BOOLEAN :
         s3' = SetUpload(IF ok
                         THEN [Did(Upload, "presign") EXCEPT
                                 !.pc = "returned", !.result = "Ok",
                                 !.s3_url = Upload.key,
                                 !.presigned_url = Some([key |-> unwrap(Upload.key),
                                                          expires_in |-> PresignSeconds])]
                         ELSE Fail(Did(Upload, "presign")))
    /\ UNCHANGED <<now, uploaded>>
    /\ s3_frame

S3Next ==
    \/ clock_tick
    \/ \E app_id \in AppIds, version \in UploadVersions : upload_artifact(app_id, version)
    \/ test_bucket_access
    \/ read_artifact
    \/ put_object
    \/ get_presigned_url

SpecS3 == S3Init /\ [][S3Next]_vars

\* event e is in the call's record, and event f before it
Has(u, e) == \E i \in 1..Len(u.events) : u.events[i] = e
After(u, e, f) ==
    \A i \in 1..Len(u.events) :
       u.events[i] = e => \E j \in 1..(i - 1) : u.events[j] = f

\* ------------------------ commands.rs: the CLI commands and the stored token
\* The commands of one shell, one after another. auth_token is the token in
\* ~/.aether/config.json, None also when that file does not exist.
\* shell.last is the command that returned last; shell.logged_out holds from
\* a logout that cleared the token to the next login or register that stored one.
MaxShell == 3       \* commands run in one shell
Tokens == {"t1", "t2"}
GatedCommands == {"deploy", "list", "logs", "delete", "status", "domain"}

NoCommand ==
    [command |-> "none", result |-> "none", token_before |-> None,
     file_before |-> FALSE, client |-> FALSE, sent |-> FALSE, wrote |-> FALSE,
     answered |-> FALSE]

ShellInit ==
    /\ shell \in [config_file : BOOLEAN, commands : {0}, logged_out : {FALSE},
                  last : {NoCommand}]
    /\ auth_token \in {None} \cup {Some(t) : t \in Tokens}
    /\ ~shell.config_file => auth_token = None
    /\ package_json = [file |-> "ok", name |-> DemoApp, version |-> None, scripts |-> None]
    /\ node_modules = "populated"
    /\ applications = <<>>
    /\ deployments = <<>>
    /\ uploaded = {}
    /\ tmp_files = {}
    /\ now = 0
    /\ runs = 0
    /\ run = IdleRun
    /\ remote_log = <<>>
    /\ follow = [pc |-> "idle"]
    /\ dash = [pc |-> "idle"]
    /\ conc = <<>>
    /\ s3 = <<>>
    /\ call = <<>>
    /\ tui = <<>>

shell_frame ==
    UNCHANGED <<remote_log, follow, dash, conc, s3, call, tui, package_json, node_modules,
                applications, deployments, uploaded, tmp_files, now, runs, run>>

\* the command starts: what it finds on disk
Started(command) ==
    [NoCommand EXCEPT !.command = command, !.token_before = auth_token,
                      !.file_before = shell.config_file]

\* Config::load succeeded: a missing file has been created with the defaults
Loaded(c) == [c EXCEPT !.wrote = ~shell.config_file]

\* the command returns; `file` tells whether the config file exists now
Finished(c, result, file) ==
    [config_file |-> file, commands |-> shell.commands + 1,
     logged_out |-> shell.logged_out, last |-> [c EXCEPT !.result = result]]

\* Config::load()? fails: a missing file could not be created, or the file
\* could not be read or parsed
load_fails(command) ==
    /\ shell' = Finished(Started(command), "Err", shell.config_file)
    /\ UNCHANGED auth_token

\* login_command that stores the token of the request before the answer is in
login_command_stores_first(endpoint) ==
    /\ shell.commands < MaxShell
    /\ \/ load_fails("login")
       \/ \E token \in Tokens, answer \in {"Ok", "Err"} :
            /\ auth_token' = Some(token)
            /\ shell' = [Finished([Loaded(Started("login")) EXCEPT
                                     !.client = TRUE, !.sent = TRUE, !.wrote = TRUE,
                                     !.answered = (answer = "Ok")],
                                  answer, TRUE) EXCEPT !.logged_out = FALSE]
    /\ shell_frame

\* `aether login [--endpoint E]`: load, save the endpoint when given, send
\* the credentials with a token-less client, store the token of an Ok answer
login_command(endpoint) ==
    /\ shell.commands < MaxShell
    /\ \/ load_fails("login")
       \/ \E fault \in {"none", "save_endpoint", "server", "save_token"}, token \in Tokens :
            LET loaded == Loaded(Started("login"))
                saved == IF endpoint THEN [loaded EXCEPT !.wrote = TRUE] ELSE loaded
                asked == [saved EXCEPT !.client = TRUE, !.sent = TRUE]
            IN IF endpoint /\ fault = "save_endpoint"
               THEN /\ shell' = Finished(loaded, "Err", TRUE)
                    /\ UNCHANGED auth_token
               ELSE IF fault = "server"
               THEN /\ shell' = Finished(asked, "Err", TRUE)
                    /\ UNCHANGED auth_token
               ELSE IF fault = "save_token"
               THEN /\ shell' = Finished([asked EXCEPT !.answered = TRUE], "Err", TRUE)
                    /\ UNCHANGED auth_token
               ELSE /\ shell' = [Finished([asked EXCEPT !.answered = TRUE, !.wrote = TRUE],
                                          "Ok", TRUE) EXCEPT !.logged_out = FALSE]
                    /\ auth_token' = Some(token)
    /\ shell_frame

\* `aether register [--endpoint E]`: as login, with client.register
register_command(endpoint) ==
    /\ shell.commands < MaxShell
    /\ \/ load_fails("register")
       \/ \E fault \in {"none", "save_endpoint", "server", "save_token"}, token \in Tokens :
            LET loaded == Loaded(Started("register"))
                saved == IF endpoint THEN [loaded EXCEPT !.wrote = TRUE] ELSE loaded
                asked == [saved EXCEPT !.client = TRUE, !.sent = TRUE]
            IN IF endpoint /\ fault = "save_endpoint"
               THEN /\ shell' = Finished(loaded, "Err", TRUE)
                    /\ UNCHANGED auth_token
               ELSE IF fault = "server"
               THEN /\ shell' = Finished(asked, "Err", TRUE)
                    /\ UNCHANGED auth_token
               ELSE IF fault = "save_token"
               THEN /\ shell' = Finished([asked EXCEPT !.answered = TRUE], "Err", TRUE)
                    /\ UNCHANGED auth_token
               ELSE /\ shell' = [Finished([asked EXCEPT !.answered = TRUE, !.wrote = TRUE],
                                          "Ok", TRUE) EXCEPT !.logged_out = FALSE]
                    /\ auth_token' = Some(token)
    /\ shell_frame

\* `aether logout`: load; Ok at once without a token, else clear_auth_token
logout_command ==
    /\ shell.commands < MaxShell
    /\ \/ load_fails("logout")
       \/ \E saved \in BOOLEAN :
            LET loaded == Loaded(Started("logout"))
            IN IF ~is_authenticated
               THEN /\ shell' = Finished(loaded, "Ok", TRUE)
                    /\ UNCHANGED auth_token
               ELSE IF saved
               THEN /\ shell' = [Finished([loaded EXCEPT !.wrote = TRUE], "Ok", TRUE)
                                    EXCEPT !.logged_out = TRUE]
                    /\ auth_token' = None
               ELSE /\ shell' = Finished(loaded, "Err", TRUE)
                    /\ UNCHANGED auth_token
    /\ shell_frame

\* gated_command that builds its client without looking at the token
gated_command_unchecked(command) ==
    /\ shell.commands < MaxShell
    /\ \/ load_fails(command)
       \/ \E client \in BOOLEAN, sent \in BOOLEAN, result \in {"Ok", "Err"} :
            /\ sent => client
            /\ shell' = Finished([Loaded(Started(command)) EXCEPT
                                    !.client = client, !.sent = sent],
                                 result, TRUE)
    /\ UNCHANGED auth_token
    /\ shell_frame

\* deploy, list, logs, delete, status and the domain commands: load, return
\* Ok without a token, else go on to ApiClient::new and the requests; the
\* command can return before its client (deploy reads the project first)
\* or before its first request
gated_command(command) ==
    /\ shell.commands < MaxShell
    /\ \/ load_fails(command)
       \/ \E client \in BOOLEAN, sent \in BOOLEAN, result \in {"Ok", "Err"} :
            /\ sent => client
            /\ shell' = IF ~is_authenticated
                        THEN Finished(Loaded(Started(command)), "Ok", TRUE)
                        ELSE Finished([Loaded(Started(command)) EXCEPT
                                          !.client = client, !.sent = sent],
                                      result, TRUE)
    /\ UNCHANGED auth_token
    /\ shell_frame

ShellNext ==
    \/ \E endpoint \in BOOLEAN : login_command(endpoint)
    \/ \E endpoint \in BOOLEAN : register_command(endpoint)
    \/ logout_command
    \/ \E command \in GatedCommands : gated_command(command)

SpecShell == ShellInit /\ [][ShellNext]_vars

\* --------------------- terminal_dashboard.rs: the terminal's output lines
\* output_lines and output_buffer by their lengths
MaxBuffered == 101  \* lines buffered while one command runs
OutputCap == 1000
Drained == 100

OutInit ==
    /\ tui = [output_lines |-> 0, output_buffer |-> 0, is_command_running |-> FALSE]
    /\ auth_token = Some("token")
    /\ package_json = [file |-> "ok", name |-> DemoApp, version |-> None, scripts |-> None]
    /\ node_modules = "populated"
    /\ applications = <<>>
    /\ deployments = <<>>
    /\ uploaded = {}
    /\ tmp_files = {}
    /\ now = 0
    /\ runs = 0
    /\ run = IdleRun
    /\ remote_log = <<>>
    /\ follow = [pc |-> "idle"]
    /\ dash = [pc |-> "idle"]
    /\ conc = <<>>
    /\ s3 = <<>>
    /\ call = <<>>
    /\ shell = <<>>

out_frame ==
    UNCHANGED <<remote_log, follow, dash, conc, s3, call, shell, auth_token, package_json,
                node_modules, applications, deployments, uploaded, tmp_files, now, runs, run>>

\* if self.output_lines.len() > 1000 { self.output_lines.drain(0..100); }
drain(len) == IF len > OutputCap THEN len - Drained ELSE len

\* add_output_line: buffered while a command runs, else pushed and trimmed
add_output_line ==
    /\ IF tui.is_command_running
       THEN /\ tui.output_buffer < MaxBuffered
            /\ tui' = [tui EXCEPT !.output_buffer = @ + 1]
       ELSE tui' = [tui EXCEPT !.output_lines = drain(@ + 1)]
    /\ out_frame

\* execute_command: start_command, then the prompt line pushed unbuffered
start_command ==
    /\ ~tui.is_command_running
    /\ tui' = [tui EXCEPT !.output_buffer = 0, !.output_lines = drain(@ + 1),
                          !.is_command_running = TRUE]
    /\ out_frame

\* the `clear` command and Ctrl+L: output_lines.clear()
clear_output ==
    /\ tui.output_lines > 0
    /\ tui' = [tui EXCEPT !.output_lines = 0]
    /\ out_frame

\* flush_output_buffer: every buffered line pushed, then one trim
flush_output_buffer(t) ==
    IF t.output_buffer > 0
    THEN [t EXCEPT !.output_lines = drain(@ + t.output_buffer), !.output_buffer = 0]
    ELSE t

\* end_command: flush_output_buffer, then is_command_running = false
end_command ==
    /\ tui.is_command_running
    /\ tui' = [flush_output_buffer(tui) EXCEPT !.is_command_running = FALSE]
    /\ out_frame

OutNext ==
    \/ add_output_line
    \/ start_command
    \/ clear_output
    \/ end_command

SpecOut == OutInit /\ [][OutNext]_vars

\* ------------------ terminal_dashboard.rs run_app: the main loop, Apps tab
\* One iteration is draw, refresh, pending delete, key event, quit check.
\* `applications` is the control plane's list, tui.applications the
\* dashboard's copy; the command line is left empty, so Tab switches tabs.
\* tui.read is the last read of applications[i]: the index and the length;
\* tui.key is the last key pressed.
MaxKeys == 4        \* key events of one dashboard session
UsizeMax == 2147483647   \* stands for usize::MAX
LoopKeys == {"Tab", "d", "y", "x", "Up", "Down", "Enter", "CtrlC"}
EnterCommands == {"logs --follow", "exit", "ls"}
ServerApps == <<[name |-> DemoApp, id |-> 1], [name |-> WebApp, id |-> 2]>>
NoRead == [index |-> 0, len |-> 1]

AppsInit ==
    /\ tui \in [pc : {"draw"}, current_tab : {0}, is_authenticated : BOOLEAN,
                applications : {<<>>}, selected_app_index : {0},
                pending_delete_app : {None}, confirmed : {FALSE},
                is_streaming_logs : {FALSE}, should_quit : {FALSE},
                keys : {0}, key : {"none"}, deletes : {<<>>}, cancelled : {0},
                read : {NoRead}]
    /\ applications = ServerApps
    /\ auth_token = Some("token")
    /\ package_json = [file |-> "ok", name |-> DemoApp, version |-> None, scripts |-> None]
    /\ node_modules = "populated"
    /\ deployments = <<>>
    /\ uploaded = {}
    /\ tmp_files = {}
    /\ now = 0
    /\ runs = 0
    /\ run = IdleRun
    /\ remote_log = <<>>
    /\ follow = [pc |-> "idle"]
    /\ dash = [pc |-> "idle"]
    /\ conc = <<>>
    /\ s3 = <<>>
    /\ call = <<>>
    /\ shell = <<>>

apps_frame ==
    UNCHANGED <<remote_log, follow, dash, conc, s3, call, shell, auth_token, package_json,
                node_modules, deployments, uploaded, tmp_files, now, runs, run>>

\* the ids of the control plane's list, as list_applications returns them
list_applications == [i \in 1..Len(applications) |-> applications[i].id]

\* the read of self.applications[index]
Read(t, index) == [t EXCEPT !.read = [index |-> index, len |-> Len(t.applications)]]

\* another client of the account deletes an application
server_remove ==
    /\ applications # <<>>
    /\ \E i \in 1..Len(applications) :
         applications' = SelectSeq(applications, LAMBDA a : a.id # applications[i].id)
    /\ UNCHANGED tui
    /\ apps_frame

\* terminal.draw: render_apps_tab reads the selected application when the
\* index is below the length
loop_draw ==
    /\ tui.pc = "draw"
    /\ tui' = IF /\ tui.current_tab = 2 /\ tui.is_authenticated
                 /\ tui.applications # <<>>
                 /\ tui.selected_app_index < Len(tui.applications)
              THEN [Read(tui, tui.selected_app_index) EXCEPT !.pc = "refresh"]
              ELSE [tui EXCEPT !.pc = "refresh"]
    /\ UNCHANGED applications
    /\ apps_frame

\* the list is fetched when the timers say so; an error is ignored
loop_refresh ==
    /\ tui.pc = "refresh"
    /\ \E due \in BOOLEAN, ok \in BOOLEAN :
         tui' = IF tui.is_authenticated /\ due /\ ok
                THEN [tui EXCEPT !.pc = "pending", !.applications = list_applications]
                ELSE [tui EXCEPT !.pc = "pending"]
    /\ UNCHANGED applications
    /\ apps_frame

\* app.selected_app_index = app.applications.len() - 1 on usize: with an
\* empty list the subtraction overflows, which panics in a debug build and
\* wraps in a release build
clamp_selected(t, build) ==
    IF t.selected_app_index >= Len(t.applications) /\ t.selected_app_index > 0
    THEN IF Len(t.applications) > 0
         THEN [t EXCEPT !.selected_app_index = Len(t.applications) - 1]
         ELSE IF build = "debug" THEN [t EXCEPT !.pc = "panicked"]
         ELSE [t EXCEPT !.selected_app_index = UsizeMax]
    ELSE t

\* if let Some((app_id, app_name)) = app.pending_delete_app.clone(): the
\* delete request, the list refreshed after an Ok, pending cleared
loop_pending_delete ==
    /\ tui.pc = "pending"
    /\ IF ~is_some(tui.pending_delete_app)
       THEN /\ tui' = [tui EXCEPT !.pc = "event"]
            /\ UNCHANGED applications
       ELSE LET app_id == unwrap(tui.pending_delete_app)
                sent == [tui EXCEPT !.pc = "event", !.pending_delete_app = None,
                                    !.confirmed = FALSE,
                                    !.deletes = Append(@, [app_id |-> app_id,
                                                           confirmed |-> tui.confirmed])]
            IN \E deleted \in BOOLEAN, listed \in BOOLEAN, build \in {"debug", "release"} :
                 IF ~deleted
                 THEN /\ tui' = sent
                      /\ UNCHANGED applications
                 ELSE /\ applications' = SelectSeq(applications, LAMBDA a : a.id # app_id)
                      /\ tui' = IF listed
                                THEN clamp_selected(
                                       [sent EXCEPT !.applications =
                                           [i \in 1..Len(applications') |-> applications'[i].id]],
                                       build)
                                ELSE sent
    /\ apps_frame

\* handle_key_event whose 'd' reads the selected application unchecked
handle_key_event_unchecked(t, key) ==
    IF key = "Tab" THEN [t EXCEPT !.current_tab = (@ + 1) % 4]
    ELSE IF key = "d" /\ t.current_tab = 2 /\ ~is_some(t.pending_delete_app)
    THEN [Read(t, t.selected_app_index) EXCEPT !.pending_delete_app = Some(0)]
    ELSE t

\* handle_key_event whose Ctrl+C quits whether or not logs are streaming
handle_key_event_quits(t, key) ==
    IF key = "Tab" THEN [t EXCEPT !.current_tab = (@ + 1) % 4]
    ELSE IF key = "CtrlC"
    THEN [t EXCEPT !.is_streaming_logs = FALSE, !.should_quit = TRUE]
    ELSE t

\* handle_key_event: Tab, Ctrl+C, 'd', 'y', any other character, Up, Down,
\* Enter off the Terminal tab
handle_key_event(t, key) ==
    IF key = "Tab" THEN [t EXCEPT !.current_tab = (@ + 1) % 4]
    ELSE IF key = "CtrlC"
    THEN IF t.is_streaming_logs THEN [t EXCEPT !.is_streaming_logs = FALSE]
         ELSE [t EXCEPT !.should_quit = TRUE]
    ELSE IF key = "d" /\ t.current_tab = 2 /\ ~is_some(t.pending_delete_app)
    THEN IF /\ t.is_authenticated /\ t.applications # <<>>
            /\ t.selected_app_index < Len(t.applications)
         THEN [Read(t, t.selected_app_index) EXCEPT
                 !.pending_delete_app = Some(t.applications[t.selected_app_index + 1])]
         ELSE t
    ELSE IF key = "y" /\ is_some(t.pending_delete_app) /\ t.current_tab = 2
    THEN [t EXCEPT !.confirmed = TRUE]
    ELSE IF key \in {"d", "y", "x"} /\ is_some(t.pending_delete_app)
    THEN [t EXCEPT !.pending_delete_app = None, !.cancelled = @ + 1]
    ELSE IF key = "Up"
    THEN IF t.current_tab = 2 /\ t.selected_app_index > 0
         THEN [t EXCEPT !.selected_app_index = @ - 1] ELSE t
    ELSE IF key = "Down"
    THEN IF /\ t.current_tab = 2 /\ Len(t.applications) > 0
            /\ t.selected_app_index < Len(t.applications) - 1
         THEN [t EXCEPT !.selected_app_index = @ + 1] ELSE t
    ELSE IF key = "Enter"
    THEN IF /\ t.current_tab = 2 /\ t.is_authenticated /\ t.applications # <<>>
            /\ t.selected_app_index < Len(t.applications)
         THEN Read(t, t.selected_app_index)
         ELSE t
    ELSE t

\* Enter on the Terminal tab: execute_command; `logs --follow` turns
\* streaming on, `exit` sets should_quit
execute_command(t, command) ==
    IF command = "logs --follow" THEN [t EXCEPT !.is_streaming_logs = t.is_authenticated]
    ELSE IF command = "exit" THEN [t EXCEPT !.should_quit = TRUE]
    ELSE t

\* event::poll(100 ms): a key press is handled, or no key arrived
loop_event ==
    /\ tui.pc = "event"
    /\ \/ tui' = [tui EXCEPT !.pc = "quit_check"]
       \/ /\ tui.keys < MaxKeys
          /\ \E key \in LoopKeys, command \in EnterCommands :
               LET pressed == [tui EXCEPT !.pc = "quit_check", !.keys = @ + 1, !.key = key]
               IN tui' = IF key = "Enter" /\ tui.current_tab = 0
                         THEN execute_command(pressed, command)
                         ELSE handle_key_event(pressed, key)
    /\ UNCHANGED applications
    /\ apps_frame

\* if app.should_quit { break; }
loop_quit_check ==
    /\ tui.pc = "quit_check"
    /\ tui' = IF tui.should_quit THEN [tui EXCEPT !.pc = "exited"]
              ELSE [tui EXCEPT !.pc = "draw"]
    /\ UNCHANGED applications
    /\ apps_frame

AppsNext ==
    \/ server_remove
    \/ loop_draw
    \/ loop_refresh
    \/ loop_pending_delete
    \/ loop_event
    \/ loop_quit_check

SpecApps == AppsInit /\ [][AppsNext]_vars

\* ----------------------------------------------------------- pure functions
\* Each action calls one function on an input drawn from a bounded set and
\* records the call in `call`.
MaxInput == 3      \* length of the enumerated input strings

\* all sequences over `chars` of length at most n
RECURSIVE Strings(_, _)
Strings(chars, n) ==
    IF n = 0 THEN {<<>>}
    ELSE LET shorter == Strings(chars, n - 1)
         IN shorter \cup {Append(t, c) : t \in shorter, c \in chars}

Repeat(c, n) == [i \in 1..n |-> c]

NoCall == [fn |-> "none", input |-> <<>>, result |-> <<>>]
Called(fn, input, result) == [fn |-> fn, input |-> input, result |-> result]

FnInit ==
    /\ auth_token = Some("token")
    /\ package_json = [file |-> "ok", name |-> DemoApp, version |-> None, scripts |-> None]
    /\ node_modules = "populated"
    /\ applications = <<>>
    /\ deployments = <<>>
    /\ uploaded = {}
    /\ tmp_files = {}
    /\ now = 0
    /\ runs = 0
    /\ run = IdleRun
    /\ remote_log = <<>>
    /\ follow = [pc |-> "idle"]
    /\ dash = [pc |-> "idle"]
    /\ conc = <<>>
    /\ s3 = <<>>
    /\ call = NoCall
    /\ shell = <<>>
    /\ tui = <<>>

fn_frame ==
    UNCHANGED <<remote_log, follow, dash, conc, s3, shell, tui, auth_token, package_json,
                node_modules, applications, deployments, uploaded, tmp_files,
                now, runs, run>>

\* ---- utils.rs validate_app_name
NameChars == {"a", "1", "-", "A"}
NameInputs ==
    Strings(NameChars, MaxInput)
    \cup {Repeat("a", MaxNameLen - 1), Repeat("a", MaxNameLen), Repeat("a", MaxNameLen + 1),
          Repeat("a", MaxNameLen) \o <<"-">>, DemoApp, UpperName}

call_validate_app_name ==
    /\ \E name \in NameInputs :
         call' = Called("validate_app_name", name, validate_app_name(name))
    /\ fn_frame

\* ---- builder.rs detect_runtime
U32Max == <<"4","2","9","4","9","6","7","2","9","5">>
DefaultNode == <<"2","0">>
VersionChars == {"0", "1", "8", "x", "."}
NodeVersions ==
    {None}
    \cup {Some(v) : v \in Strings(VersionChars, MaxInput)}
    \cup {Some(<<"1","8",".","x">>), Some(<<">","=","1","8">>), Some(<<"v","1","8">>),
          Some(U32Max), Some(<<"4","2","9","4","9","6","7","2","9","6">>),
          Some(<<"0","0","4","2","9","4","9","6","7","2","9","5">>),
          Some(<<"9","9","9","9","9","9","9","9","9","9","9">>)}

DigitValue(c) == CHOOSE n \in 0..9 : ToString(n) = c

\* get_node_version: engines.node, or "20"
get_node_version(node) == IF is_some(node) THEN unwrap(node) ELSE DefaultNode

\* every digit of the version, wherever it stands
RECURSIVE all_digits(_)
all_digits(v) ==
    IF v = <<>> THEN <<>>
    ELSE IF is_ascii_digit(Head(v)) THEN <<Head(v)>> \o all_digits(Tail(v))
    ELSE all_digits(Tail(v))

\* chars().take_while(|c| c.is_ascii_digit())
RECURSIVE leading_digits(_)
leading_digits(v) ==
    IF v = <<>> \/ ~is_ascii_digit(Head(v)) THEN <<>>
    ELSE <<Head(v)>> \o leading_digits(Tail(v))

\* a decimal numeral without its leading zeros
RECURSIVE canonical(_)
canonical(ds) ==
    IF Len(ds) > 1 /\ Head(ds) = "0" THEN canonical(Tail(ds)) ELSE ds

\* numerals of equal length compared digit by digit
RECURSIVE greater(_, _)
greater(a, b) ==
    IF a = <<>> THEN FALSE
    ELSE IF Head(a) # Head(b) THEN DigitValue(Head(a)) > DigitValue(Head(b))
    ELSE greater(Tail(a), Tail(b))

\* the numeral's value is above u32::MAX
exceeds_u32(ds) ==
    LET c == canonical(ds)
    IN Len(c) > Len(U32Max) \/ (Len(c) = Len(U32Max) /\ greater(c, U32Max))

\* str::parse::<u32>().ok(), the value kept as its decimal numeral
parse_u32(ds) ==
    IF ds = <<>> \/ exceeds_u32(ds) THEN None ELSE Some(canonical(ds))

\* detect_runtime: "node:<major>" or "node:20"
detect_runtime(node) ==
    LET major == parse_u32(leading_digits(get_node_version(node)))
    IN IF is_some(major) THEN <<"node:">> \o unwrap(major)
       ELSE <<"node:">> \o DefaultNode

call_detect_runtime ==
    /\ \E node \in NodeVersions :
         call' = Called("detect_runtime", node, detect_runtime(node))
    /\ fn_frame

\* ---- api.rs deploy_application
\* a response is the status line and the body the server sent; `readable`
\* says whether response.text() can read the body to its end
Statuses == {200, 201, 301, 400, 401, 404, 500, 503}
Bodies == {"", "{\"id\":\"d1\",\"version\":\"1.0.0\"}", "{\"error\":\"quota\"}", "Bad Gateway"}
DeploymentBodies == {"{\"id\":\"d1\",\"version\":\"1.0.0\"}"}
HttpResponses ==
    [sent : {TRUE}, status : Statuses, body : Bodies, readable : BOOLEAN]
    \cup {[sent |-> FALSE, status |-> 0, body |-> "", readable |-> FALSE]}
ReadFailure == "Failed to read error response"

\* every status below 400 taken for a success
is_success_below_400(status) == status < 400

\* StatusCode::is_success: 200..=299
is_success(status) == status >= 200 /\ status <= 299

\* handle_response on a success status: text()? then serde_json::from_str
handle_response(response) ==
    IF ~response.readable THEN [kind |-> "Http", status |-> 0, message |-> "", value |-> None]
    ELSE IF response.body \in DeploymentBodies
         THEN [kind |-> "Ok", status |-> 0, message |-> "", value |-> Some(response.body)]
    ELSE [kind |-> "Json", status |-> 0, message |-> "", value |-> None]

\* deploy_application: send()?, the status checked before parsing
deploy_application(response) ==
    IF ~response.sent THEN [kind |-> "Http", status |-> 0, message |-> "", value |-> None]
    ELSE IF ~is_success(response.status)
         THEN [kind |-> "Api", status |-> response.status,
               message |-> IF response.readable THEN response.body ELSE ReadFailure,
               value |-> None]
    ELSE handle_response(response)

call_deploy_application ==
    /\ \E response \in HttpResponses :
         call' = Called("deploy_application", response, deploy_application(response))
    /\ fn_frame

\* ---- builder.rs create_artifact, terminal_dashboard.rs create_artifact_silent
\* a project is the set of the names in its directory, a name a sequence of
\* characters; an archive is the set of the names packed from that directory
LockFiles ==
    {<<"p","a","c","k","a","g","e","-","l","o","c","k",".","j","s","o","n">>,
    <<"y","a","r","n",".","l","o","c","k">>,
    <<"p","n","p","m","-","l","o","c","k",".","y","a","m","l">>}
SourceDirs ==
    {<<"s","r","c">>,
    <<"l","i","b">>,
    <<"d","i","s","t">>,
    <<"b","u","i","l","d">>,
    <<"p","u","b","l","i","c">>,
    <<"v","i","e","w","s">>}
EntryFiles ==
    {<<"i","n","d","e","x",".","j","s">>,
    <<"s","e","r","v","e","r",".","j","s">>,
    <<"a","p","p",".","j","s">>,
    <<"m","a","i","n",".","j","s">>,
    <<".","e","n","v",".","e","x","a","m","p","l","e">>}
PackageJsonName == <<"p","a","c","k","a","g","e",".","j","s","o","n">>
NodeModulesName == <<"n","o","d","e","_","m","o","d","u","l","e","s">>
SkippedNames ==
    {<<"n","o","d","e","_","m","o","d","u","l","e","s">>,
    <<"t","a","r","g","e","t">>,
    <<"d","i","s","t">>}
\* what a project directory may hold besides package.json
ProjectItems ==
    {<<"n","o","d","e","_","m","o","d","u","l","e","s">>,
     <<"s","r","c">>,
     <<"d","i","s","t">>,
     <<".","e","n","v",".","e","x","a","m","p","l","e">>,
     <<"R","E","A","D","M","E",".","m","d">>,
     <<"a","p","p",".","l","o","g">>,
     <<"t","a","r","g","e","t">>}
Projects == {{PackageJsonName} \cup items : items \in SUBSET ProjectItems}

starts_with(name, prefix) ==
    Len(name) >= Len(prefix) /\ SubSeq(name, 1, Len(prefix)) = prefix
ends_with(name, suffix) ==
    Len(name) >= Len(suffix)
    /\ SubSeq(name, Len(name) - Len(suffix) + 1, Len(name)) = suffix

\* create_artifact: each listed name is appended when it exists
create_artifact_entries(project) ==
    ({PackageJsonName} \cup LockFiles \cup {NodeModulesName} \cup SourceDirs \cup EntryFiles)
    \cap project

\* add_directory_to_tar: every name of the directory but the skipped ones
add_directory_to_tar(project) ==
    {name \in project :
        ~(\/ starts_with(name, <<".">>)
          \/ name \in SkippedNames
          \/ ends_with(name, <<".","l","o","g">>))}

call_create_artifact ==
    /\ \E project \in Projects :
         call' = Called("create_artifact", project, create_artifact_entries(project))
    /\ fn_frame

call_create_artifact_silent ==
    /\ \E project \in Projects :
         call' = Called("create_artifact_silent", project, add_directory_to_tar(project))
    /\ fn_frame

\* ---- builder.rs install_dependencies, detect_package_manager,
\* run_build_script; terminal_dashboard.rs build_project_silent
\* a command line is the sequence <<program, argument, ...>>
BuildScripts == {"build", "compile", "prepare"}
ScriptMaps == {None} \cup {Some(names) : names \in SUBSET BuildScripts}
LockSets == SUBSET {"yarn.lock", "pnpm-lock.yaml"}
NodeModules == {"absent", "empty", "populated"}
ExitCodes == {0, ExitFailure}

detect_package_manager(locks) ==
    IF "yarn.lock" \in locks THEN "yarn"
    ELSE IF "pnpm-lock.yaml" \in locks THEN "pnpm"
    ELSE "npm"

\* the install subprocess of install_dependencies, none when node_modules
\* exists and holds an entry
install_dependencies_command(locks, modules) ==
    IF modules = "populated" THEN <<>>
    ELSE LET package_manager == detect_package_manager(locks)
         IN <<IF package_manager = "pnpm"
              THEN <<package_manager, "install", "--prod">>
              ELSE <<package_manager, "install", "--production">>>>

\* run_build_script: Ok without a subprocess when no candidate is defined,
\* else `<manager> run build`, Err when it exits non-zero
run_build_script_command(locks, scripts, exit) ==
    IF ~is_some(build_script_of(scripts))
    THEN [spawned |-> <<>>, outcome |-> "ok"]
    ELSE [spawned |-> <<<<detect_package_manager(locks), "run", "build">>>>,
          outcome |-> IF exit = 0 THEN "ok" ELSE "err"]

\* the subprocesses of ProjectBuilder::build when each exits zero
build_commands(locks, scripts, modules) ==
    install_dependencies_command(locks, modules)
    \o run_build_script_command(locks, scripts, 0).spawned

\* the subprocesses of build_project_silent when each exits zero
build_project_silent_commands(locks, scripts, modules) ==
    (IF modules = "absent" THEN <<<<"npm", "install">>>> ELSE <<>>)
    \o (IF is_some(scripts) /\ "build" \in unwrap(scripts)
        THEN <<<<"npm", "run", "build">>>> ELSE <<>>)

call_run_build_script ==
    /\ \E locks \in LockSets, scripts \in ScriptMaps, exit \in ExitCodes :
         call' = Called("run_build_script",
                        [locks |-> locks, scripts |-> scripts, exit |-> exit],
                        run_build_script_command(locks, scripts, exit))
    /\ fn_frame

call_build ==
    /\ \E locks \in LockSets, scripts \in ScriptMaps, modules \in NodeModules :
         call' = Called("build",
                        [locks |-> locks, scripts |-> scripts, modules |-> modules],
                        build_commands(locks, scripts, modules))
    /\ fn_frame

call_build_project_silent ==
    /\ \E locks \in LockSets, scripts \in ScriptMaps, modules \in NodeModules :
         call' = Called("build_project_silent",
                        [locks |-> locks, scripts |-> scripts, modules |-> modules],
                        build_project_silent_commands(locks, scripts, modules))
    /\ fn_frame

\* ---- commands.rs logs --follow and terminal_dashboard.rs streaming, one
\* tick of each on the same cursor and the same fetch
MaxFetch == 2       \* lines of a cursor and of a fetch
FetchLines == {"a", "b", " "}
Fetches == Strings(FetchLines, MaxFetch)

\* the Ok arm of one streaming poll: the lines added to the output and
\* last_log_content afterwards
stream_diff(last_log_content, logs) ==
    IF ~blank(logs) /\ logs # last_log_content
    THEN [emitted |-> stream_lines(last_log_content, logs), last_log_content |-> logs]
    ELSE [emitted |-> <<>>, last_log_content |-> last_log_content]

call_diff ==
    /\ \E previous \in Fetches, fetch \in Fetches :
         call' = Called("diff", [previous |-> previous, fetch |-> fetch],
                        [follow |-> follow_diff(previous, fetch),
                         stream |-> stream_diff(previous, fetch)])
    /\ fn_frame

FnNext ==
    \/ call_validate_app_name
    \/ call_detect_runtime
    \/ call_deploy_application
    \/ call_create_artifact
    \/ call_create_artifact_silent
    \/ call_run_build_script
    \/ call_build
    \/ call_build_project_silent
    \/ call_diff

SpecFn == FnInit /\ [][FnNext]_vars

\* ---------------- terminal_dashboard.rs: the command line of the Terminal tab
\* tui.command_input is the String as its UTF-8 bytes and tui.cursor_position
\* a byte index, as in the code. tui.op is the last insert, remove, modulus or
\* index the code computed: its kind, its index and the length it met.
MaxEdits == 6      \* key events of one editing session
Space == " "
Lead == "C3"       \* the first byte of a two-byte character
Cont == "A9"       \* its continuation byte
TypedChars == {<<"c">>, <<"a">>, <<Space>>, <<Lead, Cont>>}
EditKeys == {"Tab", "Backspace", "Delete", "Left", "Right", "Home", "End",
             "Up", "Down", "Esc"}
CdCommand == <<"c","d">>
AetherCommand == <<"a","e","t","h","e","r">>
LogsCommand == <<"l","o","g","s">>
CommonCommands ==
    << <<"l","s">>, <<"l","l">>, <<"p","w","d">>, <<"c","l","e","a","r">>,
       <<"h","e","l","p">>, CdCommand, AetherCommand >>
AetherCommands ==
    << <<"d","e","p","l","o","y">>, <<"a","p","p","s">>, LogsCommand,
       <<"d","a","s","h","b","o","a","r","d">> >>
HelloAether == <<"h","e","l","l","o","-","a","e","t","h","e","r">>
\* the directories read_dir may list in the current directory
Directories == {<<>>, << <<"a","p","p">>, <<"c","f","g">> >>}
NoOp == [kind |-> "none", idx |-> 0, len |-> 1]

EditInit ==
    /\ tui = [pc |-> "ready", current_tab |-> 0, command_input |-> <<>>,
              cursor_position |-> 0, show_completions |-> FALSE,
              completion_suggestions |-> <<>>, completion_index |-> 0,
              command_history |-> <<>>, history_index |-> None,
              keys |-> 0, op |-> NoOp]
    /\ auth_token = Some("token")
    /\ package_json = [file |-> "ok", name |-> DemoApp, version |-> None, scripts |-> None]
    /\ node_modules = "populated"
    /\ applications = <<>>
    /\ deployments = <<>>
    /\ uploaded = {}
    /\ tmp_files = {}
    /\ now = 0
    /\ runs = 0
    /\ run = IdleRun
    /\ remote_log = <<>>
    /\ follow = [pc |-> "idle"]
    /\ dash = [pc |-> "idle"]
    /\ conc = <<>>
    /\ s3 = <<>>
    /\ call = <<>>
    /\ shell = <<>>

edit_frame ==
    UNCHANGED <<remote_log, follow, dash, conc, s3, call, shell, auth_token, package_json,
                node_modules, applications, deployments, uploaded, tmp_files, now, runs, run>>

\* str::split_whitespace
word_len(s) ==
    IF \E i \in 1..Len(s) : s[i] = Space
    THEN (CHOOSE i \in 1..Len(s) : s[i] = Space /\ \A j \in 1..(i - 1) : s[j] # Space) - 1
    ELSE Len(s)
RECURSIVE split_whitespace(_)
split_whitespace(s) ==
    IF s = <<>> THEN <<>>
    ELSE IF Head(s) = Space THEN split_whitespace(Tail(s))
    ELSE <<SubSeq(s, 1, word_len(s))>> \o split_whitespace(SubSeq(s, word_len(s) + 1, Len(s)))

\* str::is_char_boundary
is_char_boundary(s, idx) ==
    \/ idx = 0
    \/ idx = Len(s)
    \/ idx < Len(s) /\ s[idx + 1] # Cont

\* the operation on the String is noted; it panics off a char boundary or
\* out of range
Op(t, kind, idx) == [t EXCEPT !.op = [kind |-> kind, idx |-> idx, len |-> Len(t.command_input)]]
Panicked(t) == [t EXCEPT !.pc = "panicked"]

\* String::insert(idx, c)
insert(t, idx, c) ==
    IF idx <= Len(t.command_input) /\ is_char_boundary(t.command_input, idx)
    THEN [Op(t, "insert", idx) EXCEPT
            !.command_input = SubSeq(@, 1, idx) \o c \o SubSeq(@, idx + 1, Len(@))]
    ELSE Panicked(Op(t, "insert", idx))

\* String::remove(idx): the whole character at idx goes
remove(t, idx) ==
    IF idx < Len(t.command_input) /\ is_char_boundary(t.command_input, idx)
    THEN LET width == IF t.command_input[idx + 1] = Lead THEN 2 ELSE 1
         IN [Op(t, "remove", idx) EXCEPT
               !.command_input = SubSeq(@, 1, idx) \o SubSeq(@, idx + width + 1, Len(@))]
    ELSE Panicked(Op(t, "remove", idx))

\* generate_completions that shows the list whatever it found
generate_completions_shows_empty(t, dirs) ==
    [t EXCEPT !.completion_suggestions = <<>>, !.show_completions = TRUE]

\* generate_completions; dirs is what get_directory_completions reads
generate_completions(t, dirs) ==
    LET cleared == [t EXCEPT !.completion_suggestions = <<>>, !.show_completions = FALSE]
        words == split_whitespace(t.command_input)
        partial == IF Len(words) > 1 THEN words[2] ELSE <<>>
        found ==
            IF words[1] = CdCommand
            THEN SelectSeq(dirs, LAMBDA name : starts_with(name, partial))
            ELSE IF words[1] = AetherCommand
            THEN IF Len(words) = 2 /\ words[2] = LogsCommand THEN <<HelloAether>>
                 ELSE IF Len(words) = 1 \/ Len(words) = 2
                 THEN SelectSeq(AetherCommands, LAMBDA cmd : starts_with(cmd, partial))
                 ELSE <<>>
            ELSE SelectSeq(CommonCommands, LAMBDA cmd : starts_with(cmd, words[1]))
    IN IF words = <<>> THEN cleared
       ELSE IF found # <<>>
       THEN [cleared EXCEPT !.completion_suggestions = found,
                            !.show_completions = TRUE, !.completion_index = 0]
       ELSE cleared

\* apply_completion: the index into completion_suggestions is noted
apply_completion(t) ==
    IF ~t.show_completions \/ t.completion_suggestions = <<>> THEN t
    ELSE LET indexed == [t EXCEPT !.op = [kind |-> "index", idx |-> t.completion_index,
                                          len |-> Len(t.completion_suggestions)]]
         IN IF t.completion_index >= Len(t.completion_suggestions) THEN Panicked(indexed)
            ELSE LET completion == t.completion_suggestions[t.completion_index + 1]
                     words == split_whitespace(t.command_input)
                     input ==
                         IF words[1] = CdCommand THEN CdCommand \o <<Space>> \o completion
                         ELSE IF words[1] = AetherCommand
                         THEN IF Len(words) <= 2
                              THEN AetherCommand \o <<Space>> \o completion
                              ELSE IF Len(words) = 3 /\ words[2] = LogsCommand
                              THEN AetherCommand \o <<Space>> \o LogsCommand \o <<Space>> \o completion
                              ELSE t.command_input
                         ELSE completion
                 IN IF words = <<>> THEN indexed
                    ELSE [indexed EXCEPT !.command_input = input,
                                         !.cursor_position = Len(input),
                                         !.show_completions = FALSE]

navigate_history_up(t) ==
    IF t.command_history = <<>> THEN t
    ELSE LET new_index == IF ~is_some(t.history_index) THEN Len(t.command_history) - 1
                          ELSE IF unwrap(t.history_index) > 0
                          THEN unwrap(t.history_index) - 1 ELSE 0
         IN [t EXCEPT !.history_index = Some(new_index),
                      !.command_input = t.command_history[new_index + 1],
                      !.cursor_position = Len(t.command_history[new_index + 1])]

navigate_history_down(t) ==
    IF ~is_some(t.history_index) THEN t
    ELSE LET i == unwrap(t.history_index)
         IN IF i < Len(t.command_history) - 1
            THEN [t EXCEPT !.history_index = Some(i + 1),
                           !.command_input = t.command_history[i + 2],
                           !.cursor_position = Len(t.command_history[i + 2])]
            ELSE [t EXCEPT !.history_index = None, !.command_input = <<>>,
                           !.cursor_position = 0]

\* KeyCode::Char(c) that is neither Ctrl+C nor a key of the Apps tab
type_char(t, c) ==
    IF t.current_tab = 0
    THEN LET inserted == insert([t EXCEPT !.show_completions = FALSE], t.cursor_position, c)
         IN IF inserted.pc = "panicked" THEN inserted
            ELSE [inserted EXCEPT !.cursor_position = @ + 1]
    ELSE t

\* the editing keys whose Right moves the cursor without looking at the length
edit_keys_unguarded(t, key, dirs) ==
    IF key = "Right" THEN [t EXCEPT !.cursor_position = @ + 1] ELSE t

\* handle_key_event: Tab, Backspace, Delete, Left, Right, Home, End, Up, Down, Esc
edit_keys(t, key, dirs) ==
    IF key = "Tab"
    THEN IF t.current_tab = 0 /\ t.command_input # <<>>
         THEN IF t.show_completions
              THEN LET cycled == [t EXCEPT !.op = [kind |-> "cycle", idx |-> t.completion_index,
                                                   len |-> Len(t.completion_suggestions)]]
                   IN IF t.completion_suggestions = <<>> THEN Panicked(cycled)
                      ELSE [cycled EXCEPT !.completion_index =
                                (@ + 1) % Len(t.completion_suggestions)]
              ELSE generate_completions(t, dirs)
         ELSE [t EXCEPT !.current_tab = (@ + 1) % 4]
    ELSE IF key = "Backspace"
    THEN IF t.current_tab = 0 /\ t.cursor_position > 0
         THEN LET removed == remove([t EXCEPT !.cursor_position = @ - 1], t.cursor_position - 1)
              IN IF removed.pc = "panicked" THEN removed
                 ELSE [removed EXCEPT !.show_completions = FALSE]
         ELSE t
    ELSE IF key = "Delete"
    THEN IF t.cursor_position < Len(t.command_input)
         THEN remove(t, t.cursor_position) ELSE t
    ELSE IF key = "Left"
    THEN IF t.cursor_position > 0 THEN [t EXCEPT !.cursor_position = @ - 1] ELSE t
    ELSE IF key = "Right"
    THEN IF t.cursor_position < Len(t.command_input)
         THEN [t EXCEPT !.cursor_position = @ + 1] ELSE t
    ELSE IF key = "Home" THEN [t EXCEPT !.cursor_position = 0]
    ELSE IF key = "End" THEN [t EXCEPT !.cursor_position = Len(t.command_input)]
    ELSE IF key = "Up"
    THEN IF t.current_tab # 0 THEN t
         ELSE IF t.show_completions /\ t.completion_suggestions # <<>>
         THEN IF t.completion_index > 0 THEN [t EXCEPT !.completion_index = @ - 1] ELSE t
         ELSE navigate_history_up(t)
    ELSE IF key = "Down"
    THEN IF t.current_tab # 0 THEN t
         ELSE IF t.show_completions /\ t.completion_suggestions # <<>>
         THEN IF t.completion_index < Len(t.completion_suggestions) - 1
              THEN [t EXCEPT !.completion_index = @ + 1] ELSE t
         ELSE navigate_history_down(t)
    ELSE IF key = "Esc"
    THEN IF t.current_tab = 0 THEN [t EXCEPT !.show_completions = FALSE] ELSE t
    ELSE t

\* execute_command: a command that is not blank joins the history once
push_history(t, command) ==
    IF split_whitespace(command) = <<>> THEN t
    ELSE IF \E i \in 1..Len(t.command_history) : t.command_history[i] = command THEN t
    ELSE [t EXCEPT !.command_history = Append(@, command)]

\* run_app, KeyCode::Enter
enter_key(t) ==
    IF t.current_tab = 0
    THEN IF t.show_completions THEN apply_completion(t)
         ELSE push_history([t EXCEPT !.command_input = <<>>, !.cursor_position = 0,
                                     !.history_index = None, !.show_completions = FALSE],
                           t.command_input)
    ELSE t

Editing == tui.pc = "ready" /\ tui.keys < MaxEdits
Pressed(t) == [t EXCEPT !.keys = tui.keys + 1]

press_char ==
    /\ Editing
    /\ \E c \in TypedChars : tui' = Pressed(type_char(tui, c))
    /\ edit_frame

press_key ==
    /\ Editing
    /\ \E key \in EditKeys, dirs \in Directories : tui' = Pressed(edit_keys(tui, key, dirs))
    /\ edit_frame

press_enter ==
    /\ Editing
    /\ tui' = Pressed(enter_key(tui))
    /\ edit_frame

EditNext ==
    \/ press_char
    \/ press_key
    \/ press_enter

SpecEdit == EditInit /\ [][EditNext]_vars

\* -------------------------------------------------------------- properties
Trace == run.trace
Returned == run.pc = "returned"
Logged(op, ev) == \E i \in 1..Len(Trace) : Trace[i] = Ev(op, ev)
Began(op) == Logged(op, "begin")
\* the side-effecting stages after the resolution step
WorkStages == {"install", "build", "package", "upload", "register"}
\* the deployments this run has created
NewDeployments == SubSeq(deployments, Len(run.pre.deployments) + 1, Len(deployments))

\* C1: once a deploy run has returned, whatever its outcome and entry point,
\* the temporary artifact file it created no longer exists.
C1_ArtifactAbsentAfterReturn ==
    (Returned /\ run.created) => unwrap(run.artifact_path) \notin tmp_files

\* C2: deploy_application is issued only after this run's upload returned
\* success, the deployment it creates carries the storage locator that upload
\* returned (an object the store holds), and a failed upload creates no deployment.
C2_RegisterOnlyAfterUpload ==
    /\ \A i \in 1..Len(Trace) :
          Trace[i] = Ev("register", "begin")
             => /\ \E j \in 1..(i-1) : Trace[j] = Ev("upload", "ok")
                /\ is_some(run.artifact_url)
    /\ \A k \in 1..Len(NewDeployments) :
          /\ Logged("upload", "ok")
          /\ NewDeployments[k].artifact_url = unwrap(run.artifact_url)
          /\ NewDeployments[k].artifact_url \in uploaded
          /\ NewDeployments[k].artifact_url.app_id = run.app_id
    /\ Logged("upload", "err") => (~Began("register") /\ NewDeployments = <<>>)
    /\ \A k \in 1..Len(deployments) : deployments[k].artifact_url \in uploaded

C2_Witness ==
    Returned /\ run.outcome = "success" /\ Len(NewDeployments) = 1

\* the stages of a deploy run, in pipeline order
StageOrder == <<"validate", "install", "build", "package", "upload", "register">>
\* the stages begun so far, in the order they began
RECURSIVE BegunIn(_)
BegunIn(t) ==
    IF t = <<>> THEN <<>>
    ELSE IF Head(t).ev = "begin" THEN <<Head(t).op>> \o BegunIn(Tail(t))
    ELSE BegunIn(Tail(t))
Begun == BegunIn(Trace)

\* C3: in every deploy run the stages begin in the order validate, install,
\* build, package, upload, register: the k-th stage begun is the k-th of that
\* order, it begins only after the one before it completed successfully, and
\* no stage begins while another is still in progress.
C3_StagesInFixedOrder ==
    /\ Len(Begun) <= Len(StageOrder)
    /\ \A k \in 1..Len(Begun) : Begun[k] = StageOrder[k]
    /\ \A i \in 1..Len(Trace) :
          Trace[i].ev = "begin" =>
             \A j \in 1..(i-1) :
                Trace[j].ev = "begin" =>
                   \E m \in (j+1)..(i-1) :
                      /\ Trace[m].op = Trace[j].op
                      /\ Trace[m].ev \in {"ok", "skip"}

\* C4: a failed stage is the last thing a run does: nothing is started after
\* it, no stage is begun twice, and the run returns that error.
C4_FailureAbortsRun ==
    /\ \A i \in 1..Len(Trace) :
          Trace[i].ev = "err" =>
             /\ i = Len(Trace)
             /\ Returned
             /\ run.result = "Err"
             /\ run.outcome = Trace[i].op
    /\ \A i, j \in 1..Len(Trace) :
          (i # j /\ Trace[i].ev = "begin") => Trace[i] # Trace[j]
    /\ run.spawned <= 2
    /\ (Returned /\ run.result = "Err") => Trace[Len(Trace)].ev = "err"

C4_Witness ==
    Returned /\ run.result = "Err" /\ run.outcome = "build" /\ run.spawned >= 1

\* C5: a failed cleanup never changes the outcome: a run whose upload and
\* registration succeeded returns Ok, and a run in which a stage failed
\* returns that stage's error.
C5_CleanupNeverChangesOutcome ==
    Returned =>
       /\ Logged("register", "ok") => run.result = "Ok"
       /\ \A op \in {"validate"} \cup WorkStages :
             Logged(op, "err") => (run.result = "Err" /\ run.outcome = op)

\* the name a run deploys under: the --name argument, else the manifest's name
requested_name ==
    IF run.entry = "cli" /\ is_some(run.name) THEN run.name
    ELSE IF package_json.file = "ok" THEN Some(package_json.name)
    ELSE None

\* C6: in every entry point, an authenticated run whose application name
\* fails validate_app_name spawns no subprocess, sends no network request,
\* and fails.
C6_InvalidNameFailsFirst ==
    ( /\ run.entry # "none"
      /\ run.authenticated_at_start
      /\ is_some(requested_name)
      /\ validate_app_name(unwrap(requested_name)) # "Ok" )
    => /\ run.spawned = 0
       /\ run.requests = 0
       /\ Returned => run.result = "Err"

\* C7: the authentication check is the first step of a run and happens once;
\* with no token stored the run does nothing else: it reads no manifest,
\* spawns no subprocess and sends no request.
C7_NoTokenShortCircuits ==
    /\ \A i \in 1..Len(Trace) : (Trace[i].op = "auth") <=> (i = 1)
    /\ (run.entry # "none" /\ ~run.authenticated_at_start) =>
          /\ run.pc \in {"auth", "returned"}
          /\ Trace \in {<<>>, <<Ev("auth", "ok")>>}
          /\ run.spawned = 0
          /\ run.requests = 0
          /\ Returned => run.outcome = "not_authenticated"

C7_Witness ==
    Returned /\ ~run.authenticated_at_start /\ run.outcome = "not_authenticated"
             /\ package_json.file = "ok"

\* C8: the CLI deploy exits with 0 exactly when the run succeeded or the
\* operator declined the confirmation, and non-zero on every failure,
\* including "not authenticated".
C8_ExitCode ==
    (run.entry = "cli" /\ Returned) =>
       (main(run.result) = 0 <=> run.outcome \in {"success", "declined"})

\* C9: when the application exists, force is unset and the operator declines,
\* the run returns Ok having installed, built, packaged, uploaded, created
\* and registered nothing.
C9_DeclineIsCleanExit ==
    (run.answer = "no") =>
       /\ run.existing /\ ~run.force
       /\ Returned
       /\ run.outcome = "declined"
       /\ run.result = "Ok"
       /\ main(run.result) = 0
       /\ \A op \in WorkStages \cup {"create"} :
             \A ev \in {"begin", "ok", "err", "skip"} : ~Logged(op, ev)
       /\ run.spawned = 0
       /\ ~run.created
       /\ Snapshot = run.pre

C9_Witness ==
    Returned /\ run.answer = "no" /\ run.entry = "cli" /\ run.requests = 1

\* C10: in every entry point, a run that found an existing application of
\* the same name goes on to build, package, upload or register only with the
\* force flag set or after the operator confirmed; with force no confirmation
\* is requested.
C10_RedeployNeedsConsent ==
    /\ (run.existing /\ \E op \in WorkStages : Began(op)) =>
          (run.force \/ run.answer = "yes")
    /\ run.force => \A ev \in {"ok", "err"} : ~Logged("confirm", ev)

\* C11: application resolution is create-or-reuse: create_application is
\* called only when the list held no application of exactly the target name,
\* an existing application is reused as the first match of the list, and so
\* runs executed one after another never leave two applications of one name.
C11_CreateOrReuse ==
    /\ \A i, j \in 1..Len(applications) :
          i # j => applications[i].name # applications[j].name
    /\ (run.pc = "create" \/ Logged("create", "ok") \/ Logged("create", "err")) =>
          /\ ~run.existing
          /\ \A i \in 1..Len(run.pre.applications) :
                run.pre.applications[i].name # unwrap(run.app_name)
    /\ run.existing =>
          /\ ~Logged("create", "ok") /\ ~Logged("create", "err")
          /\ \E i \in 1..Len(run.pre.applications) :
                /\ run.pre.applications[i].name = unwrap(run.app_name)
                /\ run.pre.applications[i].id = run.app_id
                /\ \A j \in 1..(i-1) :
                      run.pre.applications[j].name # unwrap(run.app_name)
          /\ applications = run.pre.applications

C11_Witness ==
    /\ runs = 2 /\ Returned /\ run.existing /\ run.outcome = "success"
    /\ Len(applications) = 1

\* C12: a run that ends in success has created exactly one Deployment, with
\* the manifest's version ("1.0.0" when none is declared) and the resolved or
\* created application; a run that ends any other way has created none.
C12_OneDeploymentPerSuccess ==
    Returned =>
       IF run.result = "Ok" /\ run.outcome = "success"
       THEN /\ Len(NewDeployments) = 1
            /\ NewDeployments[1].version = get_version
            /\ NewDeployments[1].app_id = run.app_id
       ELSE NewDeployments = <<>>

\* C20: on both build paths the install subprocess is spawned only when
\* node_modules was absent or empty; when it is populated the install step is
\* a no-op that spawns nothing, so a run that follows a populating install
\* spawns no second install.
C20_InstallOnlyWhenNeeded ==
    /\ (run.pc = "installing" \/ Logged("install", "ok") \/ Logged("install", "err")) =>
          run.pre.node_modules \in {"absent", "empty"}
    /\ (run.pre.node_modules = "populated" /\ Began("install")) =>
          /\ Logged("install", "skip")
          /\ node_modules = "populated"
          /\ ~Began("build") => run.spawned = 0
          /\ run.spawned <= 1

C20_Witness ==
    /\ runs = 2 /\ run.pre.node_modules = "populated"
    /\ Logged("install", "skip") /\ run.spawned = 0 /\ Returned
    /\ run.outcome = "success"

\* C13: two deploy runs executing at the same time never hold the same
\* temporary artifact path, and no run uploads or deletes bytes another run
\* wrote.
C13_NoSharedArtifactPath ==
    /\ \A p, q \in Procs :
          (p # q /\ Running(p) /\ Running(q)) => Proc(p).path # Proc(q).path
    /\ \A p \in Procs : Proc(p).sent \subseteq {p} /\ Proc(p).removed \subseteq {p}

\* C14: in a follow session whose fetch results are each the previous result
\* with one or more non-blank lines appended, every tick prints exactly the
\* appended lines, in order, and nothing of an earlier result.
C14_EmitsExactlyAppended ==
    [][(IsTick /\ follow'.chain) =>
          Emitted = Printed("new", SubSeq(follow'.fetched, Len(follow.fetched) + 1,
                                          Len(follow'.fetched)))]_vars

C14_Witness ==
    /\ follow.chain /\ follow.fetched = <<"a", "b">>
    /\ follow.out = Printed("new", <<"a", "b">>)

\* C15: while the remote log only grows by appending, no log line is printed
\* twice in a follow session, the baseline print included, whatever the
\* --lines limit.
C15_NoLinePrintedTwice ==
    follow.grow_only =>
       \A i, j \in 1..Len(follow.out) :
          (i # j /\ follow.out[i].text = follow.out[j].text) =>
             blank_line(follow.out[i].text)

\* C16: a tick whose fetch has no more lines than the cursor prints exactly
\* one "Latest" notice with the new last line when the last lines differ, and
\* nothing when they are the same.
C16_LatestNoticeOnChange ==
    [][(IsTick /\ NoGrowth) => NoticeIfChanged]_vars

\* C16 amended: the same, for a fetch that is not blank; a blank or empty
\* fetch prints nothing whatever its last line.
C16_LatestNoticeOnChangeUnlessBlank ==
    [][(IsTick /\ NoGrowth) =>
          IF blank(follow'.fetched) THEN Emitted = <<>> ELSE NoticeIfChanged]_vars

C16_Witness ==
    /\ follow.pc = "loop"
    /\ follow.fetched = <<"b">> /\ follow.last_logs = <<"b">>
    /\ follow.out = Printed("baseline", <<"a">>) \o Printed("latest", <<"b">>)

\* C17: the cursor becomes the fetched text on exactly the ticks that printed
\* something; a tick that prints nothing, a blank or empty fetch included,
\* leaves it as it was.
C17_CursorMovesOnlyOnEmit ==
    [][IsTick =>
          /\ Emitted # <<>> => follow'.last_logs = follow'.fetched
          /\ Emitted = <<>> => follow'.last_logs = follow.last_logs]_vars

C17_Witness ==
    /\ follow.pc = "loop"
    /\ follow.fetched = <<" ">> /\ follow.last_logs = <<"a">>
    /\ follow.out = Printed("baseline", <<"a">>)

\* C18: once an interrupt has arrived the follow loop starts at most one
\* further fetch and is over within one tick.
C18_ExitsWithinOneTick ==
    follow.cancelled => follow.after_cancel <= 1

\* C19: once Esc or Ctrl+C has been pressed while the dashboard was streaming
\* logs, on whichever tab, streaming is off and no streaming fetch is issued
\* until the next follow command.
C19_StopKeysStopStreaming ==
    dash.stop_pressed => ~dash.is_streaming_logs /\ ~dash.fetched_after_stop

\* C21: when packaging fails after the archive file was created, the partly
\* written archive is gone by the time the packager has returned the error.
C21_PartialArchiveRemoved ==
    (Returned /\ run.result = "Err" /\ run.outcome = "package" /\ run.created) =>
       unwrap(run.artifact_path) \notin tmp_files

\* C22: any two uploads of the same application id and version get different
\* storage keys, two uploads within one clock second included.
C22_DistinctStorageKeys ==
    \A i, j \in 1..Len(s3) :
       (/\ i # j
        /\ s3[i].app_id = s3[j].app_id /\ s3[i].version = s3[j].version
        /\ is_some(s3[i].key) /\ is_some(s3[j].key)) =>
          s3[i].key # s3[j].key

\* C28: in upload_artifact the put is attempted only after the bucket check
\* succeeded, a failed check returns an error with no put attempted, the read
\* URL is requested only after the put succeeded, and a failed put returns an
\* error with no storage locator and no read URL.
C28_CheckThenPutThenPresign ==
    \A i \in 1..Len(s3) :
       LET u == s3[i]
       IN /\ After(u, "put", "head_ok")
          /\ Has(u, "head_err") => ~Has(u, "put") /\ u.pc = "returned" /\ u.result = "Err"
          /\ After(u, "presign", "put_ok")
          /\ Has(u, "put_err") =>
                /\ u.pc = "returned" /\ u.result = "Err"
                /\ ~is_some(u.s3_url) /\ ~is_some(u.presigned_url)
                /\ ~Has(u, "presign")
          /\ (is_some(u.s3_url) \/ is_some(u.presigned_url)) =>
                Has(u, "put_ok") /\ unwrap(u.key) \in uploaded

C28_Witness ==
    /\ Len(s3) = 2
    /\ s3[1].result = "Err" /\ Has(s3[1], "head_err")
    /\ s3[2].result = "Ok" /\ s3[2].events = <<"head_ok", "put", "put_ok", "presign">>
    /\ is_some(s3[2].presigned_url)

\* C24: validate_app_name accepts a name exactly when it is non-empty, at most
\* 63 characters long, made only of ASCII lowercase letters, digits and
\* hyphens, and neither starts nor ends with a hyphen; any other name gets an
\* error.
C24_ValidNamesExactly ==
    (call.fn = "validate_app_name") =>
       LET name == call.input
           valid == /\ Len(name) >= 1 /\ Len(name) <= 63
                    /\ \A i \in 1..Len(name) :
                          name[i] \in LowerChars \cup DigitChars \cup {"-"}
                    /\ name[1] # "-" /\ name[Len(name)] # "-"
       IN (call.result = "Ok") <=> valid

C24_Witness ==
    /\ call.fn = "validate_app_name"
    /\ call.input = <<"a", "-", "1">> /\ call.result = "Ok"

\* the runtime string the declared version stands for: node:<its leading
\* digits read as a number>, node:20 when it has none or none is declared
DigitPrefix(v) ==
    LET k == CHOOSE i \in 0..Len(v) :
                /\ \A j \in 1..i : v[j] \in DigitChars
                /\ i < Len(v) => v[i + 1] \notin DigitChars
    IN SubSeq(v, 1, k)
ExpectedRuntime(node) ==
    LET ds == IF is_some(node) THEN DigitPrefix(unwrap(node)) ELSE <<>>
    IN IF ds = <<>> THEN <<"node:", "2", "0">> ELSE <<"node:">> \o canonical(ds)

\* C25: detect_runtime returns node:<N> for the number N of the leading digits
\* of the declared node version, and node:20 when there is no leading digit or
\* no declared version.
C25_RuntimeFromLeadingDigits ==
    (call.fn = "detect_runtime") => call.result = ExpectedRuntime(call.input)

\* C25 amended: the same when the number fits an unsigned 32-bit integer; a
\* larger number gives node:20 as well.
C25_RuntimeFromLeadingDigitsU32 ==
    (call.fn = "detect_runtime") =>
       call.result =
          IF is_some(call.input) /\ exceeds_u32(DigitPrefix(unwrap(call.input)))
          THEN <<"node:", "2", "0">>
          ELSE ExpectedRuntime(call.input)

C25_Witness ==
    /\ call.fn = "detect_runtime"
    /\ call.input = Some(<<"1", "8", ".", "x">>)
    /\ call.result = <<"node:", "1", "8">>

\* the server answered with a status outside 200..299
NonSuccess(response) == response.sent /\ (response.status < 200 \/ response.status > 299)

\* C23: when create-deployment answers with a non-success status,
\* deploy_application fails with an error carrying that status code and the
\* response body unchanged, and returns no Deployment.
C23_ApiErrorCarriesStatusAndBody ==
    (call.fn = "deploy_application" /\ NonSuccess(call.input)) =>
       /\ call.result.kind = "Api"
       /\ call.result.status = call.input.status
       /\ call.result.message = call.input.body
       /\ call.result.value = None

\* C23 amended: the message is the body when the body could be read, and the
\* fixed text "Failed to read error response" when it could not.
C23_ApiErrorCarriesStatusAndReadableBody ==
    (call.fn = "deploy_application" /\ NonSuccess(call.input)) =>
       /\ call.result.kind = "Api"
       /\ call.result.status = call.input.status
       /\ call.result.message = IF call.input.readable THEN call.input.body
                                ELSE "Failed to read error response"
       /\ call.result.value = None

C23_Witness ==
    /\ call.fn = "deploy_application"
    /\ call.input.status = 503 /\ call.input.body = "Bad Gateway" /\ call.input.readable
    /\ call.result = [kind |-> "Api", status |-> 503, message |-> "Bad Gateway",
                      value |-> None]

\* the names the archive is to hold when they exist
ArchiveList ==
    {<<"p","a","c","k","a","g","e",".","j","s","o","n">>,
    <<"p","a","c","k","a","g","e","-","l","o","c","k",".","j","s","o","n">>,
    <<"y","a","r","n",".","l","o","c","k">>,
    <<"p","n","p","m","-","l","o","c","k",".","y","a","m","l">>,
    <<"n","o","d","e","_","m","o","d","u","l","e","s">>,
    <<"s","r","c">>,
    <<"l","i","b">>,
    <<"d","i","s","t">>,
    <<"b","u","i","l","d">>,
    <<"p","u","b","l","i","c">>,
    <<"v","i","e","w","s">>,
    <<"i","n","d","e","x",".","j","s">>,
    <<"s","e","r","v","e","r",".","j","s">>,
    <<"a","p","p",".","j","s">>,
    <<"m","a","i","n",".","j","s">>,
    <<".","e","n","v",".","e","x","a","m","p","l","e">>}

\* C27: on both packaging paths the archive holds exactly the existing names
\* of the list (package.json, the lock files, node_modules, the six source
\* directories, the five entry files) and no other.
C27_ArchiveIsTheListedItems ==
    (call.fn \in {"create_artifact", "create_artifact_silent"}) =>
       call.result = call.input \cap ArchiveList

\* the first candidate script the manifest defines, in the order build,
\* compile, prepare
SelectedScript(scripts) ==
    IF ~is_some(scripts) THEN <<>>
    ELSE IF "build" \in unwrap(scripts) THEN <<"build">>
    ELSE IF "compile" \in unwrap(scripts) THEN <<"compile">>
    ELSE IF "prepare" \in unwrap(scripts) THEN <<"prepare">>
    ELSE <<>>

\* C26: run_build_script succeeds without a subprocess when no candidate
\* script is defined; otherwise it spawns `<manager> run <selected script>`
\* and fails exactly when that subprocess exits non-zero.
C26_RunsTheSelectedScript ==
    (call.fn = "run_build_script") =>
       LET selected == SelectedScript(call.input.scripts)
       IN IF selected = <<>>
          THEN call.result = [spawned |-> <<>>, outcome |-> "ok"]
          ELSE /\ Len(call.result.spawned) = 1
               /\ SubSeq(call.result.spawned[1], 2, 3) = <<"run", selected[1]>>
               /\ (call.result.outcome = "err") = (call.input.exit # 0)

\* the manager the lock files select: yarn.lock, else pnpm-lock.yaml, else npm
ManagerByLockFile(locks) ==
    IF "yarn.lock" \in locks THEN "yarn"
    ELSE IF "pnpm-lock.yaml" \in locks THEN "pnpm"
    ELSE "npm"

ProductionFlags == {"--production", "--prod"}

\* C29: every subprocess of one run is the manager chosen by lock-file
\* precedence (yarn.lock, else pnpm-lock.yaml, else npm), the same for the
\* install and the build script, and the install runs in production mode.
C29_OneManagerProductionInstall ==
    (call.fn \in {"build", "build_project_silent"}) =>
       \A i \in 1..Len(call.result) :
          LET command == call.result[i]
          IN /\ command[1] = ManagerByLockFile(call.input.locks)
             /\ (command[2] = "install") =>
                   \E j \in 3..Len(command) : command[j] \in ProductionFlags

\* the text of each printed line
Texts(printed) == [i \in 1..Len(printed) |-> printed[i].text]

\* C30: on every pair (previous cursor, fresh fetch) the follow loop and the
\* streaming loop emit the same lines and leave the same cursor.
C30_OneDiffPolicy ==
    (call.fn = "diff") =>
       /\ Texts(call.result.follow.emitted) = call.result.stream.emitted
       /\ call.result.follow.last_logs = call.result.stream.last_log_content

\* the application list holds an application of this name
Listed(apps, name) == \E i \in 1..Len(apps) : apps[i].name = name

\* the run passed find_app_by_name with an Ok answer
Found(r) == \E i \in 1..Len(r.trace) : r.trace[i] = Ev("find", "ok")

\* C32: a CLI deploy that created its application and then failed at the
\* install, the build, the packaging or the upload leaves that application
\* listed with no deployment; a CLI deploy of a name that was listed when it
\* started takes the existing-application path (confirmation unless forced)
\* and never reaches create_application.
C32_FailedDeployLeavesApplication ==
    /\ (/\ run.entry = "cli" /\ run.pc = "returned" /\ run.result = "Err"
        /\ run.outcome \in {"install", "build", "package", "upload"}
        /\ ~run.existing)
       => /\ \E i \in 1..Len(applications) :
                applications[i] = [id |-> run.app_id, name |-> unwrap(run.app_name)]
          /\ \A k \in 1..Len(deployments) : deployments[k].app_id # run.app_id
          /\ ~Listed(run.pre.applications, unwrap(run.app_name))
    /\ (/\ run.entry = "cli" /\ is_some(run.app_name) /\ Found(run)
        /\ Listed(run.pre.applications, unwrap(run.app_name)))
       => /\ run.existing
          /\ run.pc # "create"
          /\ applications = run.pre.applications
          /\ (run.pc \notin {"confirm", "returned"}) => (run.force \/ run.answer = "yes")

\* the second deploy finds the application a failed first deploy left behind
C32_Witness ==
    /\ runs = 2 /\ run.entry = "cli" /\ run.pc = "confirm"
    /\ Listed(run.pre.applications, unwrap(run.app_name))
    /\ run.pre.deployments = <<>>
    /\ Len(applications) = 1

\* the error line a failed poll prints
FetchError == [kind |-> "error", text |-> "Error fetching logs"]

\* a step of the loop whose fetch failed
FailedTick ==
    /\ follow.pc = "loop"
    /\ follow'.out = Append(follow.out, FetchError)

\* C34: in `logs --follow` a failed fetch on a poll tick ends the loop with
\* Ok and leaves the cursor as it was, and nothing is fetched or printed
\* after the return; a failed baseline fetch returns the error before the
\* loop is entered.
C34_FailedFetchEndsFollow ==
    [][/\ FailedTick =>
             /\ follow'.pc = "returned" /\ follow'.result = "Ok"
             /\ follow'.last_logs = follow.last_logs
             /\ follow'.fetched = follow.fetched
       /\ (follow.pc = "baseline" /\ follow'.pc = "returned")
          => /\ follow'.result = "Err"
             /\ follow'.out = follow.out /\ follow'.fetched = follow.fetched
       /\ (follow.pc = "returned")
          => /\ follow'.pc = "returned" /\ follow'.result = follow.result
             /\ follow'.out = follow.out /\ follow'.fetched = follow.fetched
             /\ follow'.last_logs = follow.last_logs]_vars

\* a poll failed after the cursor had been set by an earlier fetch
C34_Witness ==
    /\ follow.pc = "returned" /\ follow.result = "Ok"
    /\ follow.last_logs # <<>>
    /\ follow.out # <<>> /\ follow.out[Len(follow.out)] = FetchError

\* a command that changed the stored token
TokenChanged == shell.last.command # "none" /\ auth_token # shell.last.token_before

\* C35: a logout that returns Ok leaves no token stored; a deploy, list,
\* logs, delete, status or domain command that finds no token returns
\* without an API client and without a request; the token comes back only
\* through a login or register that returned Ok; a logout that finds no
\* token does not write the configuration file.
C35_LogoutGatesCommands ==
    /\ (shell.last.command = "logout" /\ shell.last.result = "Ok") => auth_token = None
    /\ shell.logged_out => auth_token = None
    /\ (shell.last.command \in GatedCommands /\ shell.last.token_before = None)
       => ~shell.last.client /\ ~shell.last.sent
    /\ (TokenChanged /\ auth_token # None)
       => shell.last.command \in {"login", "register"} /\ shell.last.result = "Ok"
    /\ (shell.last.command = "logout" /\ shell.last.token_before = None)
       => ~shell.last.wrote

\* C35 as the code has it: the logout without a token leaves an existing
\* configuration file unwritten; when the file does not exist, Config::load
\* creates it with the defaults, which hold no token.
C35_LogoutGatesCommandsExistingFile ==
    /\ (shell.last.command = "logout" /\ shell.last.result = "Ok") => auth_token = None
    /\ shell.logged_out => auth_token = None
    /\ (shell.last.command \in GatedCommands /\ shell.last.token_before = None)
       => ~shell.last.client /\ ~shell.last.sent
    /\ (TokenChanged /\ auth_token # None)
       => shell.last.command \in {"login", "register"} /\ shell.last.result = "Ok"
    /\ (shell.last.command = "logout" /\ shell.last.token_before = None)
       => /\ auth_token = None
          /\ shell.last.wrote = (~shell.last.file_before /\ shell.config_file)

\* a gated command ran after a logout had cleared a stored token
C35_Witness ==
    /\ shell.logged_out
    /\ shell.last.command \in GatedCommands
    /\ shell.last.token_before = None /\ shell.last.file_before
    /\ shell.last.result = "Ok"

\* C36: a login or register that returns Err leaves the stored token as it
\* was, and the token is written only after the server answered Ok.
C36_FailedLoginKeepsToken ==
    (shell.last.command \in {"login", "register"}) =>
       /\ shell.last.result = "Err" => auth_token = shell.last.token_before
       /\ TokenChanged => shell.last.answered

\* a login failed at the server while a token was stored
C36_Witness ==
    /\ shell.last.command = "login" /\ shell.last.result = "Err"
    /\ shell.last.sent /\ ~shell.last.answered
    /\ is_some(shell.last.token_before)

\* C33: output_lines never holds more than 1000 lines after an
\* add_output_line or a flush_output_buffer, however many lines were buffered.
C33_OutputLinesCapped ==
    tui.output_lines <= OutputCap

\* C31: delete_application is called for an application only after 'd' and
\* then 'y' were pressed on it.
C31_DeleteOnlyAfterConfirm ==
    \A i \in 1..Len(tui.deletes) : tui.deletes[i].confirmed

\* a step that handles a press of Ctrl+C
CtrlCPressed ==
    /\ tui.pc = "event" /\ tui'.keys = tui.keys + 1 /\ tui'.key = "CtrlC"

\* C37: Ctrl+C while logs are streaming stops the streaming and leaves
\* should_quit unset; Ctrl+C while they are not streaming sets should_quit;
\* once should_quit is set the loop is at its quit check or has exited.
C37_CtrlCStopsThenQuits ==
    [][/\ CtrlCPressed =>
             IF tui.is_streaming_logs
             THEN ~tui'.is_streaming_logs /\ ~tui'.should_quit
             ELSE tui'.should_quit
       /\ tui'.should_quit => tui'.pc \in {"quit_check", "exited"}
       /\ (tui.pc = "quit_check" /\ tui.should_quit /\ tui' # tui) => tui'.pc = "exited"]_vars

\* the first Ctrl+C of a streaming session has only stopped the stream
C37_Witness ==
    /\ tui.pc = "draw" /\ tui.key = "CtrlC" /\ tui.keys >= 2
    /\ ~tui.is_streaming_logs /\ ~tui.should_quit

\* C38: every read of applications[selected_app_index] is made with the
\* index below the length of the list.
C38_ReadsWithinBounds ==
    tui.read.index < tui.read.len

\* the Apps tab is drawn with the selection past the end of a list that a
\* refresh has shrunk since the last read
C38_Witness ==
    /\ tui.pc = "refresh" /\ tui.current_tab = 2 /\ tui.is_authenticated
    /\ tui.applications # <<>>
    /\ tui.selected_app_index >= Len(tui.applications)
    /\ tui.read.len > Len(tui.applications)

\* C39: whenever show_completions is true the suggestion list is non-empty and
\* completion_index is below its length; the modulus of a Tab cycle is never
\* zero and apply_completion never indexes past the list.
C39_ShownCompletionsInRange ==
    /\ tui.show_completions =>
          /\ tui.completion_suggestions # <<>>
          /\ tui.completion_index < Len(tui.completion_suggestions)
    /\ tui.op.kind = "cycle" => tui.op.len > 0
    /\ tui.op.kind = "index" => tui.op.idx < tui.op.len

\* Tab has moved the selection down a list of several suggestions
C39_Witness ==
    /\ tui.show_completions /\ tui.op.kind = "cycle"
    /\ tui.completion_index > 0 /\ Len(tui.completion_suggestions) > 1

\* C40: cursor_position is between 0 and the length of command_input, every
\* insert is at an index up to the length and every remove below it.
C40_CursorInRange ==
    /\ 0 <= tui.cursor_position
    /\ tui.cursor_position <= Len(tui.command_input)
    /\ tui.op.kind = "insert" => tui.op.idx <= tui.op.len
    /\ tui.op.kind = "remove" => tui.op.idx < tui.op.len

\* a character was removed from the middle of a line the cursor had moved in
C40_Witness ==
    /\ tui.pc = "ready" /\ tui.op.kind = "remove"
    /\ 0 < tui.op.idx /\ tui.op.idx < tui.op.len - 1
    /\ tui.cursor_position < Len(tui.command_input)

====
